---- MODULE Spec2Model ----
(***************************************************************************)
(* A model of the memora web client: the FormBuilder component, the        *)
(* useService mutation hook, the NotificationProvider with its rendered    *)
(* Notification components, and the RequestBuilder of ManageService.       *)
(* Each component has its own specification (SpecForm, SpecHook,           *)
(* SpecNotif, SpecRequest) over the shared variable tuple.                 *)
(***************************************************************************)
EXTENDS Integers, Sequences, FiniteSets, TLC

VARIABLES
    fields,         \* FormBuilder prop: the ordered FieldConfig list
    resetOnSubmit,  \* FormBuilder prop (default true)
    controls,       \* per field: what its control shows (the user's input)
    formData,       \* per field: what FormData.get(field.name) returns now
    inFlight,       \* onSubmit invocations started by startTransition, unsettled
    handlerArg,     \* the value map given to the unsettled onSubmit invocation
    thrown,         \* message of the Error the last event's handler threw
    uncaught,       \* the rejection of onSubmit the last event let through to
                    \* startTransition's caller
    lastEvent,      \* the event the form processed last
    retry,          \* useService option: retry attempts of the mutation
    mutation,       \* useMutation's observer result: status, error, data
    current,        \* the service call the observer follows (0: none)
    serviceCalls,   \* unsettled service calls: call id -> failed attempts
    callCount,      \* fetch() calls made so far
    hookEvent,      \* the event the hook processed last
    loadedOnce,     \* the hook saw its service succeed since creation or reset
    callbacks,      \* useService options: which of onSuccess, onError are given
    invocations,    \* the calls of options.onSuccess and options.onError, in order
    lastSettled,    \* the service call that settled last, and how
    notifications,  \* NotificationProvider state: the list of records
    timers,         \* setTimeout timers of the mounted Notification components
    now,            \* Date.now(), in milliseconds
    issued,         \* the ids showNotification generated so far, in order
    returned,       \* what the last call of an insertion function returned
    notifEvent,     \* the event the provider processed last, the id it was
                    \* about and whether a timer was pending for that id
    config,         \* RequestBuilder: baseUrl and config (endpoint, method, body)
    reqPhase,       \* where execRequest stands: built, awaiting, settled
    call,           \* the fetch(url, options) call execRequest issued
    response,       \* the Response fetch resolved with
    outcome,        \* how the promise of execRequest settled
    failure,        \* what fetch rejected with, when it did
    fetchCount,     \* calls of fetch made so far
    invoked,        \* the deckService function invoked last, with its params
    queryArgs,      \* the arguments of the useServiceQuery call of a component
    query,          \* the options useServiceQuery handed to useQuery
    serviceCall,    \* the call of the service that useQuery's queryFn made
    ancestors,      \* the components above a consumer component, root first
    consumer,       \* what useNotification did in the render of the consumer
    fieldProps,     \* the props of a Field element: config and disabled
    element,        \* what Field returned for the props
    decks,          \* backend: the rows of the deck table, in creation order
    apiReply,       \* backend: the HTTP response to the last request
    effects,        \* CreateDeckForm: what its callbacks did, in order
    heap,           \* the objects RequestBuilders allocated: config and headers
    builders,       \* the RequestBuilders prepareRequest returned, in order
    lastCalls,      \* per builder: the fetch call its last execRequest made
    lastOp,         \* the method called last on a builder, and on which
    builderOps      \* how many builder methods were called

formVars == <<fields, resetOnSubmit, controls, formData, inFlight, handlerArg,
              thrown, uncaught, lastEvent>>
hookVars == <<retry, mutation, current, serviceCalls, callCount, hookEvent, loadedOnce,
              callbacks, invocations, lastSettled>>

notifVars == <<notifications, timers, now, issued, returned, notifEvent>>

reqVars == <<config, reqPhase, call, response, outcome, failure, fetchCount, invoked>>

queryVars == <<queryArgs, query, serviceCall>>

consumerVars == <<ancestors, consumer>>

fieldVars == <<fieldProps, element>>

apiVars == <<decks, apiReply>>

flowVars == <<effects>>

builderVars == <<heap, builders, lastCalls, lastOp, builderOps>>

extVars == <<consumerVars, fieldVars, apiVars, flowVars, builderVars>>

vars == <<formVars, hookVars, notifVars, reqVars, queryVars, extVars>>

(***************************************************************************)
(* Bounds                                                                  *)
(***************************************************************************)
MaxFields == 2
MaxInFlight == 2
MaxCalls == 3
MaxRetry == 1
MaxNotifications == 3
MaxApiCalls == 2
MaxTime == 1
MaxDecks == 3
MaxFairFields == 1
MaxBuilders == 2
MaxBuilderOps == 5

(***************************************************************************)
(* JavaScript values                                                       *)
(***************************************************************************)
Null == "#null"
NoError == "#none"
NoCall == <<>>
Undefined == [t |-> "undefined"]
NaN == [t |-> "NaN"]
Num(n) == [t |-> "number", n |-> n]
Str(s) == [t |-> "string", s |-> s]
Bool(b) == [t |-> "boolean", b |-> b]

\* Truthiness of a FormData entry (a string or null): null and "" are falsy.
Truthy(value) == value # Null /\ value # ""

\* Number(value) on the strings the model's controls can hold.
Number(value) ==
    CASE value = "7" -> Num(7)
      [] value = "0" -> Num(0)
      [] value = " " -> Num(0)
      [] value = "" -> Num(0)
      [] OTHER -> NaN

isNaN(v) == v = NaN \/ v = Undefined

(***************************************************************************)
(* Field configurations                                                    *)
(***************************************************************************)
FieldType == {"text", "email", "password", "number", "textarea", "select",
              "checkbox", "radio"}

FieldName(i) == "f" \o ToString(i)

\* label is a string of every configuration; the model leaves it empty at
\* the even positions of a form, so that both sides of
\* `field.label || field.name` occur.
FieldLabel(i) == IF i % 2 = 1 THEN "Label " \o FieldName(i) ELSE ""

\* The FieldConfig records a form may hold at position i.  defaultChecked
\* is an attribute of checkbox configurations only.
FieldConfigs(i) ==
    { c \in [name : {FieldName(i)}, type : FieldType, required : BOOLEAN,
              disabled : BOOLEAN, label : {FieldLabel(i)},
              defaultChecked : BOOLEAN] :
         c.defaultChecked => c.type = "checkbox" }

\* What a user can make the control of a field of the type show: the text
\* typed into it, or its checked / selected state.
RawInputs(type) ==
    CASE type = "checkbox" -> {"unchecked", "checked"}
      [] type = "radio" -> {"a"}
      [] type = "number" -> {"", " ", "x", "7", "0"}
      [] OTHER -> {"", "a"}

\* The control of a freshly rendered (or reset) field.
InitialControl(field) ==
    CASE field.type = "checkbox" ->
             (IF field.defaultChecked THEN "checked" ELSE "unchecked")
      [] field.type = "radio" -> "unselected"
      [] OTHER -> ""

InitialControls(fs) == [i \in 1..Len(fs) |-> InitialControl(fs[i])]

Digits == {"0", "1", "2", "3", "4", "5", "6", "7", "8", "9"}

\* The text is a valid floating-point number (of the texts the model types,
\* the strings of digits are).
ValidFloatingPointNumber(text) ==
    /\ text # ""
    /\ \A k \in 1..Len(text) : SubSeq(text, k, k) \in Digits

NoSanitization(text) == text

\* The value of <input type="number">: text that is not a valid
\* floating-point number is replaced by the empty string.
SanitizeNumber(text) == IF ValidFloatingPointNumber(text) THEN text ELSE ""

EntryOfDisabledControls(field, control) ==
    CASE field.type = "checkbox" -> (IF control = "checked" THEN "on" ELSE Null)
      [] field.type = "radio" -> (IF control = "unselected" THEN Null ELSE control)
      [] field.type = "number" -> SanitizeNumber(control)
      [] OTHER -> control

\* new FormData(form).get(field.name).  A disabled control contributes no
\* entry; an unchecked checkbox or radio group neither; a checked checkbox
\* without value attribute contributes 'on'.
Entry(field, control) ==
    IF field.disabled THEN Null
    ELSE CASE field.type = "checkbox" ->
                  (IF control = "checked" THEN "on" ELSE Null)
           [] field.type = "radio" ->
                  (IF control = "unselected" THEN Null ELSE control)
           [] field.type = "number" -> SanitizeNumber(control)
           [] OTHER -> control

\* The FormData entry of a freshly rendered (or reset) control.
InitialEntry(field) == Entry(field, InitialControl(field))

InitialFormData(fs) == [i \in 1..Len(fs) |-> InitialEntry(fs[i])]

\* disabled={disabled || config.disabled} of every field component.
FieldDisabledByConfigOnly(field, disabled) == field.disabled

FieldDisabled(field, disabled) == disabled \/ field.disabled

(***************************************************************************)
(* Button                                                                  *)
(***************************************************************************)
ButtonIgnoresLoading(disabled, isLoading) == disabled

isDisabled(disabled, isLoading) == disabled \/ isLoading

(***************************************************************************)
(* FormBuilder                                                             *)
(***************************************************************************)
isPendingSticksOnRejection == inFlight > 0 \/ lastEvent = "rejected"

\* useTransition: isPending is true while an async action handed to
\* startTransition is unsettled.
isPending == inFlight > 0

\* One iteration of the loop of handleSubmit: the coerced value of a field,
\* or the validation error it throws.
CoerceField(field, value) ==
    IF field.type = "checkbox" THEN
        [threw |-> FALSE, value |-> Bool(value = "on" \/ value = "true")]
    ELSE IF field.type = "number" THEN
        LET numValue == IF Truthy(value) THEN Number(value) ELSE Undefined
        IN  [threw |-> FALSE,
             value |-> IF ~isNaN(numValue) THEN numValue ELSE Undefined]
    ELSE IF Truthy(value) THEN
        [threw |-> FALSE, value |-> Str(value)]
    ELSE IF field.required THEN
        [threw |-> TRUE,
         message |-> (IF field.label # "" THEN field.label ELSE field.name)
                     \o " is required"]
    ELSE
        [threw |-> FALSE, value |-> Undefined]

\* The loop of handleSubmit from field i on: the first throw ends it.
RECURSIVE ExtractValues(_, _, _, _)
ExtractValues(fs, fd, i, values) ==
    IF i > Len(fs) THEN [threw |-> FALSE, values |-> values]
    ELSE LET r == CoerceField(fs[i], fd[i])
         IN  IF r.threw THEN [threw |-> TRUE, message |-> r.message]
             ELSE ExtractValues(fs, fd, i + 1, Append(values, r.value))

AfterResolveNeverResets(fs, fd, reset) == fd

\* What the form's controls hold after the awaited onSubmit resolved.
AfterResolve(fs, fd, reset) == IF reset THEN InitialFormData(fs) ELSE fd

\* What the caller's onSubmit may reject with.
HandlerErrors == {"HTTP 500: Internal Server Error"}

\* A form that is not rendered (the other components are under study).
FormIdle ==
    /\ fields = <<>>
    /\ resetOnSubmit = TRUE
    /\ controls = <<>>
    /\ formData = <<>>
    /\ inFlight = 0
    /\ handlerArg = NoCall
    /\ thrown = NoError
    /\ uncaught = NoError
    /\ lastEvent = "render"

FormOfAtMost(max) ==
    /\ \E n \in 1..max :
          \E fs \in [1..n -> UNION {FieldConfigs(i) : i \in 1..n}] :
             /\ \A i \in 1..n : fs[i] \in FieldConfigs(i)
             /\ fields = fs
    /\ resetOnSubmit \in BOOLEAN
    /\ controls = InitialControls(fields)
    /\ formData = InitialFormData(fields)
    /\ inFlight = 0
    /\ handlerArg = NoCall
    /\ thrown = NoError
    /\ uncaught = NoError
    /\ lastEvent = "render"

FormInit == FormOfAtMost(MaxFields)

\* The user changes an enabled control.
FormEdit(i, raw) ==
    /\ ~FieldDisabled(fields[i], isPending)
    /\ raw \in RawInputs(fields[i].type)
    /\ controls' = [controls EXCEPT ![i] = raw]
    /\ formData' = [formData EXCEPT ![i] = Entry(fields[i], raw)]
    /\ thrown' = NoError
    /\ uncaught' = NoError
    /\ lastEvent' = "edit"
    /\ UNCHANGED <<fields, resetOnSubmit, inFlight, handlerArg>>

Edit(i, raw) ==
    /\ FormEdit(i, raw)
    /\ UNCHANGED <<hookVars, notifVars, reqVars, queryVars, extVars>>

\* A submit event, raised through the submit button: handleSubmit.
FormSubmit ==
    /\ ~isDisabled(FALSE, isPending)
    /\ inFlight < MaxInFlight
    /\ LET r == ExtractValues(fields, formData, 1, <<>>)
       IN  IF r.threw
           THEN /\ thrown' = r.message
                /\ lastEvent' = "invalid"
                /\ UNCHANGED <<inFlight, handlerArg>>
           ELSE /\ inFlight' = inFlight + 1
                /\ handlerArg' = r.values
                /\ thrown' = NoError
                /\ lastEvent' = "submitted"
    /\ uncaught' = NoError
    /\ UNCHANGED <<fields, resetOnSubmit, controls, formData>>

Submit ==
    /\ FormSubmit
    /\ UNCHANGED <<hookVars, notifVars, reqVars, queryVars, extVars>>

\* The awaited onSubmit promise resolves: the rest of the transition runs.
FormHandlerResolve ==
    /\ inFlight > 0
    /\ inFlight' = inFlight - 1
    /\ formData' = AfterResolve(fields, formData, resetOnSubmit)
    /\ controls' = IF resetOnSubmit THEN InitialControls(fields) ELSE controls
    /\ handlerArg' = IF inFlight = 1 THEN NoCall ELSE handlerArg
    /\ thrown' = NoError
    /\ uncaught' = NoError
    /\ lastEvent' = "resolved"
    /\ UNCHANGED <<fields, resetOnSubmit>>

HandlerResolve ==
    /\ FormHandlerResolve
    /\ UNCHANGED <<hookVars, notifVars, reqVars, queryVars, extVars>>

HandlerRejectInvokesAgain ==
    /\ inFlight > 0
    /\ thrown' = NoError
    /\ uncaught' = NoError
    /\ lastEvent' = "rejected"
    /\ UNCHANGED <<fields, resetOnSubmit, controls, formData, inFlight, handlerArg>>
    /\ UNCHANGED <<hookVars, notifVars, reqVars, queryVars, extVars>>

\* The awaited onSubmit promise rejects with the error: the transition ends
\* at the await, and the async action rejects with it (no try/catch).
FormHandlerReject(error) ==
    /\ inFlight > 0
    /\ inFlight' = inFlight - 1
    /\ handlerArg' = IF inFlight = 1 THEN NoCall ELSE handlerArg
    /\ thrown' = NoError
    /\ uncaught' = error
    /\ lastEvent' = "rejected"
    /\ UNCHANGED <<fields, resetOnSubmit, controls, formData>>

HandlerReject ==
    /\ \E error \in HandlerErrors : FormHandlerReject(error)
    /\ UNCHANGED <<hookVars, notifVars, reqVars, queryVars, extVars>>

NextForm ==
    \/ \E i \in 1..Len(fields) : \E raw \in RawInputs(fields[i].type) : Edit(i, raw)
    \/ Submit
    \/ HandlerResolve
    \/ HandlerReject

(***************************************************************************)
(* useService: the mutation hook over useMutation                          *)
(***************************************************************************)
Results == {"deck"}
Errors == {"HTTP 500"}

\* The observer result of a mutation that was never run, or was reset.
IdleMutation == [status |-> "idle", error |-> Null, data |-> Undefined]

UseServiceResultLoadedWhenSettled(m) ==
    [isLoading |-> m.status = "pending",
     isLoaded |-> m.status \in {"success", "error"},
     error |-> m.error,
     result |-> m.data]

\* The projection useService returns (without fetch and reset).
UseServiceResult(m) ==
    [isLoading |-> m.status = "pending",
     isLoaded |-> m.status = "success",
     error |-> m.error,
     result |-> m.data]

NothingSettled == [id |-> 0, kind |-> "none"]

OnErrorNeverForwards(options, id, error) == <<>>

\* onError: (error) => { if (options?.onError) options.onError(error) }: the
\* calls of the caller's callback it makes for the service call id.
OnError(options, id, error) ==
    IF "onError" \in options
    THEN << [callback |-> "onError", id |-> id, argument |-> error] >>
    ELSE <<>>

\* onSuccess: (data) => { if (options?.onSuccess) options.onSuccess(data) }
OnSuccess(options, id, data) ==
    IF "onSuccess" \in options
    THEN << [callback |-> "onSuccess", id |-> id, argument |-> data] >>
    ELSE <<>>

HookIdle ==
    /\ retry = 0
    /\ mutation = IdleMutation
    /\ current = 0
    /\ serviceCalls = <<>>
    /\ callCount = 0
    /\ hookEvent = "mount"
    /\ loadedOnce = FALSE
    /\ callbacks = {}
    /\ invocations = <<>>
    /\ lastSettled = NothingSettled

HookInit ==
    /\ retry \in 0..MaxRetry
    /\ mutation = IdleMutation
    /\ current = 0
    /\ serviceCalls = <<>>
    /\ callCount = 0
    /\ hookEvent = "mount"
    /\ loadedOnce = FALSE
    /\ callbacks \in SUBSET {"onSuccess", "onError"}
    /\ invocations = <<>>
    /\ lastSettled = NothingSettled

Unsettled == DOMAIN serviceCalls

Without(calls, id) == [c \in (DOMAIN calls) \ {id} |-> calls[c]]

\* fetch(params): mutateAsync starts a service call and the observer follows
\* it; nothing stops a fetch while an earlier call is unsettled.
Fetch ==
    /\ callCount < MaxCalls
    /\ callCount' = callCount + 1
    /\ current' = callCount + 1
    /\ serviceCalls' = [c \in Unsettled \cup {callCount + 1} |->
                           IF c \in Unsettled THEN serviceCalls[c] ELSE 0]
    /\ mutation' = [status |-> "pending", error |-> Null, data |-> Undefined]
    /\ hookEvent' = "fetch"
    /\ UNCHANGED <<retry, loadedOnce, callbacks, invocations, lastSettled>>

\* The service's promise of call id resolves with data.
ServiceResolve(id, data) ==
    /\ id \in Unsettled
    /\ serviceCalls' = Without(serviceCalls, id)
    /\ IF id = current
       THEN /\ mutation' = [status |-> "success", error |-> Null, data |-> data]
            /\ hookEvent' = "resolved"
            /\ loadedOnce' = TRUE
       ELSE /\ UNCHANGED <<mutation, loadedOnce>>
            /\ hookEvent' = "unobserved"
    /\ invocations' = invocations \o OnSuccess(callbacks, id, data)
    /\ lastSettled' = [id |-> id, kind |-> "resolved", value |-> data]
    /\ UNCHANGED <<retry, current, callCount, callbacks>>

\* The service's promise of call id rejects and retry attempts are left: the
\* mutation calls the service again and stays pending.
ServiceRetry(id) ==
    /\ id \in Unsettled
    /\ serviceCalls[id] < retry
    /\ serviceCalls' = [serviceCalls EXCEPT ![id] = @ + 1]
    /\ hookEvent' = IF id = current THEN "retry" ELSE "unobserved"
    /\ UNCHANGED <<retry, mutation, current, callCount, loadedOnce, callbacks,
                   invocations, lastSettled>>

\* The service's promise of call id rejects for the last time.
ServiceReject(id, error) ==
    /\ id \in Unsettled
    /\ serviceCalls[id] >= retry
    /\ serviceCalls' = Without(serviceCalls, id)
    /\ IF id = current
       THEN /\ mutation' = [status |-> "error", error |-> error, data |-> Undefined]
            /\ hookEvent' = "rejected"
       ELSE /\ UNCHANGED mutation
            /\ hookEvent' = "unobserved"
    /\ invocations' = invocations \o OnError(callbacks, id, error)
    /\ lastSettled' = [id |-> id, kind |-> "rejected", value |-> error]
    /\ UNCHANGED <<retry, current, callCount, loadedOnce, callbacks>>

\* reset(): mutation.reset detaches the observer from its call, at any time.
Reset ==
    /\ mutation' = IdleMutation
    /\ current' = 0
    /\ hookEvent' = "reset"
    /\ loadedOnce' = FALSE
    /\ UNCHANGED <<retry, serviceCalls, callCount, callbacks, invocations, lastSettled>>

NextHook ==
    \/ Fetch /\ UNCHANGED <<formVars, notifVars, reqVars, queryVars, extVars>>
    \/ \E id \in Unsettled : \E data \in Results :
          ServiceResolve(id, data) /\ UNCHANGED <<formVars, notifVars, reqVars, queryVars, extVars>>
    \/ \E id \in Unsettled : ServiceRetry(id) /\ UNCHANGED <<formVars, notifVars, reqVars, queryVars, extVars>>
    \/ \E id \in Unsettled : \E error \in Errors :
          ServiceReject(id, error) /\ UNCHANGED <<formVars, notifVars, reqVars, queryVars, extVars>>
    \/ Reset /\ UNCHANGED <<formVars, notifVars, reqVars, queryVars, extVars>>



(***************************************************************************)
(* NotificationProvider and the Notification components it renders         *)
(***************************************************************************)
NotificationTypes == {"success", "error", "info", "warning"}
InsertionFunctions == {"showNotification"} \cup NotificationTypes
Messages == {"ok"}
Omitted == "#omitted"

\* The duration arguments the model passes, besides omitting the argument.
DurationArgs == {-1, 0, 1}

DefaultDuration == 3000

\* Math.random(): the n-th output of the engine's generator; the outputs of
\* one run are taken to be distinct.
MathRandom(n) == n

NotificationIdWithoutRandom(time, random) == <<time, 0>>

\* id = `${Date.now()}-${Math.random()}`
NotificationId(time, random) == <<time, random>>

TypeAlwaysDefault(fn, typeArg) == "info"

\* The type showNotification files the record under: its own argument
\* (default 'info'), or the type the convenience wrapper passes.
NotificationType(fn, typeArg) ==
    IF fn = "showNotification"
    THEN (IF typeArg = Omitted THEN "info" ELSE typeArg)
    ELSE fn

\* duration = 3000 when the argument is omitted.
DurationOrDefault(given, duration) == IF given THEN duration ELSE DefaultDuration

StartsTimerAlsoAtZero(duration) == duration >= 0

\* The effect of Notification starts a timer only for a positive duration.
StartsTimer(duration) == duration > 0

Ids(list) == {list[k].id : k \in 1..Len(list)}

RECURSIVE Filter(_, _)
Filter(list, id) ==
    IF list = <<>> THEN <<>>
    ELSE IF Head(list).id # id THEN <<Head(list)>> \o Filter(Tail(list), id)
         ELSE Filter(Tail(list), id)

RemoveFirstRecord(list, id) == IF list = <<>> THEN <<>> ELSE Tail(list)

\* removeNotification: prev.filter((notification) => notification.id !== id)
RemoveNotification(list, id) == Filter(list, id)

KeepTimers(active, list) == active

\* The cleanup of the effect of every Notification that left the list
\* (its component unmounts) clears its timer.
Unmount(active, list) == {t \in active : t.id \in Ids(list)}

\* removeNotification is memoized without dependencies: the onClose prop of
\* the Notification components is the same function in every render.
OnCloseChanged == FALSE

RerenderRestartsTimers(active, list, time) ==
    {[id |-> list[k].id, deadline |-> time + list[k].duration] :
        k \in {j \in 1..Len(list) : StartsTimer(list[j].duration)}}

\* The provider rendered again at the time: the effect of a Notification
\* that stays mounted (same key) runs again, clearing and restarting its
\* timer, only when one of its dependencies [id, duration, onClose] changed.
Rerender(active, list, time) ==
    IF OnCloseChanged
    THEN {[id |-> list[k].id, deadline |-> time + list[k].duration] :
             k \in {j \in 1..Len(list) : StartsTimer(list[j].duration)}}
    ELSE active

NotifIdle ==
    /\ notifications = <<>>
    /\ timers = {}
    /\ now = 0
    /\ issued = <<>>
    /\ returned = Undefined
    /\ notifEvent = [op |-> "mount", id |-> <<0, 0>>, timer |-> FALSE]

\* A consumer calls fn(message[, type][, duration]).
Insert(fn, message, typeArg, given, durationArg) ==
    /\ LET id == NotificationId(now, MathRandom(Len(issued) + 1))
           duration == DurationOrDefault(given, durationArg)
           notification == [id |-> id, type |-> NotificationType(fn, typeArg),
                            message |-> message, duration |-> duration]
       IN  /\ notifications' = Append(notifications, notification)
           /\ timers' = IF StartsTimer(duration)
                        THEN Rerender(timers, notifications, now)
                                \cup {[id |-> id, deadline |-> now + duration]}
                        ELSE Rerender(timers, notifications, now)
           /\ issued' = Append(issued, id)
           /\ notifEvent' = [op |-> fn, id |-> id, timer |-> FALSE]
    /\ returned' = Undefined
    /\ UNCHANGED now

\* The timer of a Notification fires: onClose(id).
TimerExpire(timer) ==
    /\ timer \in timers
    /\ timer.deadline <= now
    /\ notifications' = RemoveNotification(notifications, timer.id)
    /\ timers' = Rerender(Unmount(timers \ {timer}, notifications'),
                          notifications', now)
    /\ notifEvent' = [op |-> "expire", id |-> timer.id, timer |-> TRUE]
    /\ UNCHANGED <<now, issued, returned>>

\* The user clicks the close button of a rendered Notification: onClose(id).
Close(id) ==
    /\ id \in Ids(notifications)
    /\ notifications' = RemoveNotification(notifications, id)
    /\ timers' = Rerender(Unmount(timers, notifications'), notifications', now)
    /\ notifEvent' = [op |-> "close", id |-> id,
                      timer |-> \E t \in timers : t.id = id]
    /\ UNCHANGED <<now, issued, returned>>

\* Time passes, up to the next deadline: a timer fires at its deadline.
Advance(time) ==
    /\ time > now
    /\ \A t \in timers : time <= t.deadline
    /\ \/ time = now + 1 /\ now < MaxTime
       \/ \E t \in timers : time = t.deadline
    /\ now' = time
    /\ UNCHANGED <<notifications, timers, issued, returned, notifEvent>>

\* The arguments a consumer may pass to the insertion function fn.
TypeArgs(fn) ==
    IF fn = "showNotification" THEN NotificationTypes \cup {Omitted} ELSE {Omitted}

DurationChoices(given) == IF given THEN DurationArgs ELSE {DefaultDuration}

\* The provider under consumers that call success(...) and
\* showNotification(message[, , duration]).
NextNotif ==
    \/ /\ Len(issued) < MaxNotifications
       /\ \E fn \in {"success", "showNotification"} : \E message \in Messages :
          \E given \in BOOLEAN : \E durationArg \in DurationChoices(given) :
             Insert(fn, message, Omitted, given, durationArg)
       /\ UNCHANGED <<formVars, hookVars, reqVars, queryVars, extVars>>
    \/ \E timer \in timers : TimerExpire(timer) /\ UNCHANGED <<formVars, hookVars, reqVars, queryVars, extVars>>
    \/ \E id \in Ids(notifications) : Close(id) /\ UNCHANGED <<formVars, hookVars, reqVars, queryVars, extVars>>
    \/ \E time \in {now + 1} \cup {t.deadline : t \in timers} :
          Advance(time) /\ UNCHANGED <<formVars, hookVars, reqVars, queryVars, extVars>>

\* The provider under consumers that call any of the five insertion
\* functions with any arguments.
NextNotifApi ==
    \/ /\ Len(issued) < MaxApiCalls
       /\ \E fn \in InsertionFunctions : \E message \in Messages :
          \E typeArg \in TypeArgs(fn) :
          \E given \in BOOLEAN : \E durationArg \in DurationChoices(given) :
             Insert(fn, message, typeArg, given, durationArg)
       /\ UNCHANGED <<formVars, hookVars, reqVars, queryVars, extVars>>
    \/ \E timer \in timers : TimerExpire(timer) /\ UNCHANGED <<formVars, hookVars, reqVars, queryVars, extVars>>
    \/ \E id \in Ids(notifications) : Close(id) /\ UNCHANGED <<formVars, hookVars, reqVars, queryVars, extVars>>
    \/ \E time \in {now + 1} \cup {t.deadline : t \in timers} :
          Advance(time) /\ UNCHANGED <<formVars, hookVars, reqVars, queryVars, extVars>>

(***************************************************************************)
(* ManageService: RequestBuilder.execRequest                               *)
(***************************************************************************)
HTTP_METHODS == {"GET", "POST", "PUT", "PATCH", "DELETE"}
CONTENT_TYPES == {"application/json", "multipart/form-data",
                  "application/x-www-form-urlencoded"}
Endpoints == {"/v1/decks"}
BaseUrls == {"", "http://localhost:3001"}
NoBody == "#nobody"
NoResponse == [status |-> 0, statusText |-> "", body |-> ""]
NoOutcome == [kind |-> "none"]
NoFailure == [kind |-> "none"]
NoInvocation == [op |-> "none", params |-> Undefined, n |-> 0]

\* JavaScript null, objects (their properties in insertion order) and arrays.
JsNull == [t |-> "null"]
Obj(members) == [t |-> "object", members |-> members]
Arr(items) == [t |-> "array", items |-> items]

\* ToBoolean(v), the test of `if (this.config.body && ...)`.
TruthyValue(v) ==
    CASE v.t \in {"object", "array"} -> TRUE
      [] v.t = "number" -> v.n # 0
      [] v.t = "string" -> v.s # ""
      [] v.t = "boolean" -> v.b
      [] OTHER -> FALSE

\* JSON.stringify(v) of a value other than undefined; a property whose value
\* is undefined is left out of an object.
RECURSIVE JSONStringify(_)
RECURSIVE StringifyMembers(_)
RECURSIVE StringifyItems(_)
JSONStringify(v) ==
    CASE v.t = "object" ->
             "{" \o StringifyMembers(SelectSeq(v.members,
                                               LAMBDA m : m[2] # Undefined)) \o "}"
      [] v.t = "array" -> "[" \o StringifyItems(v.items) \o "]"
      [] v.t = "string" -> "\"" \o v.s \o "\""
      [] v.t = "number" -> ToString(v.n)
      [] v.t = "boolean" -> (IF v.b THEN "true" ELSE "false")
      [] OTHER -> "null"

StringifyMembers(fs) ==
    IF fs = <<>> THEN ""
    ELSE "\"" \o Head(fs)[1] \o "\":" \o JSONStringify(Head(fs)[2])
         \o (IF Tail(fs) = <<>> THEN "" ELSE "," \o StringifyMembers(Tail(fs)))

StringifyItems(items) ==
    IF items = <<>> THEN ""
    ELSE JSONStringify(Head(items))
         \o (IF Tail(items) = <<>> THEN "" ELSE "," \o StringifyItems(Tail(items)))

\* The payloads handed to setBody: a CreateDeckDto, and values that are
\* falsy in JavaScript (body is typed unknown).
CreateDeckDto == Obj(<< <<"name", Str("Test")>> >>)
Payloads == {CreateDeckDto, Num(0), Str(""), Bool(FALSE), JsNull}

DeckJson == "{\"id\":\"d1\",\"name\":\"Test\",\"count\":0}"

\* The responses of the mock endpoint: status, reason phrase (empty under
\* HTTP/2) and text body.
Statuses == {200, 201, 204, 400, 404, 500}

StatusPhrase(status) ==
    CASE status = 200 -> "OK"
      [] status = 201 -> "Created"
      [] status = 204 -> "No Content"
      [] status = 400 -> "Bad Request"
      [] status = 404 -> "Not Found"
      [] OTHER -> "Internal Server Error"

ResponseBodies == {"", "Not found", DeckJson, "[]"}

Responses ==
    { [status |-> st, statusText |-> tx, body |-> bd] :
         st \in Statuses, tx \in {"", "Not Found", "Internal Server Error"},
         bd \in ResponseBodies }

\* What fetch may reject with: an Error (a TypeError), or a value that is
\* no Error.
TransportFailures ==
    { [isError |-> TRUE, message |-> "Failed to fetch"],
      [isError |-> FALSE, message |-> "aborted"] }

\* response.ok
Ok(resp) == resp.status >= 200 /\ resp.status <= 299

\* The texts of the names and descriptions of decks.
DeckTexts == {"", " ", "a", "d", "Test", "Phrasal Verbs"}

\* One property, or none (Undefined stands for its absence).
Member(key, value) == IF value = Undefined THEN <<>> ELSE << <<key, value>> >>

\* The JSON values of the bodies of create requests and of their responses:
\* objects with some of id, name and description, and the error object.
JsonValues ==
    { Obj(Member("id", id) \o Member("name", name) \o Member("description", d)) :
         id \in {Undefined} \cup {Str("d" \o ToString(k)) : k \in 1..(MaxDecks + 1)},
         name \in {Undefined} \cup {Str(t) : t \in DeckTexts},
         d \in {Undefined} \cup {Str(t) : t \in DeckTexts} }
    \cup {Obj(<< <<"error", Str("name is required")>> >>)}

\* response.json() / the body parser of the backend on the JSON texts of the
\* model: the value the text is the JSON of, or the SyntaxError thrown.
ParseJson(text) ==
    CASE text = DeckJson ->
             [threw |-> FALSE,
              value |-> Obj(<< <<"id", Str("d1")>>, <<"name", Str("Test")>>,
                               <<"count", Num(0)>> >>)]
      [] text = "[]" -> [threw |-> FALSE, value |-> Arr(<<>>)]
      [] OTHER ->
             IF \E v \in JsonValues : JSONStringify(v) = text
             THEN [threw |-> FALSE,
                   value |-> CHOOSE v \in JsonValues : JSONStringify(v) = text]
             ELSE [threw |-> TRUE, message |-> "Unexpected end of JSON input"]

HttpErrorMessagePhraseFirst(resp) ==
    "HTTP " \o ToString(resp.status) \o ": "
        \o (IF resp.statusText # "" THEN resp.statusText ELSE resp.body)

\* `HTTP ${response.status}: ${errorMessage || response.statusText}`
HttpErrorMessage(resp) ==
    "HTTP " \o ToString(resp.status) \o ": "
        \o (IF resp.body # "" THEN resp.body ELSE resp.statusText)

CatchWrapsEveryError(error) ==
    [kind |-> "rejected", message |-> "An unexpected error occurred"]

\* The catch block: an Error is thrown again, anything else is replaced.
Catch(error) ==
    IF error.isError
    THEN [kind |-> "rejected", message |-> error.message]
    ELSE [kind |-> "rejected", message |-> "An unexpected error occurred"]

HandleResponseParsesEveryBody(resp) ==
    IF ~Ok(resp)
    THEN Catch([isError |-> TRUE, message |-> HttpErrorMessage(resp)])
    ELSE LET data == ParseJson(resp.body)
         IN  IF data.threw
             THEN Catch([isError |-> TRUE, message |-> data.message])
             ELSE [kind |-> "resolved", payload |-> data.value]

\* execRequest from the response on.
HandleResponse(resp) ==
    IF ~Ok(resp)
    THEN Catch([isError |-> TRUE, message |-> HttpErrorMessage(resp)])
    ELSE IF resp.status = 204
    THEN [kind |-> "resolved", payload |-> Undefined]
    ELSE LET data == ParseJson(resp.body)
         IN  IF data.threw
             THEN Catch([isError |-> TRUE, message |-> data.message])
             ELSE [kind |-> "resolved", payload |-> data.value]

\* new RequestBuilder(endpoint, method, baseUrl): no body, JSON content type.
NewRequestBuilder(endpoint, method, baseUrl) ==
    [baseUrl |-> baseUrl, endpoint |-> endpoint, method |-> method,
     body |-> Undefined, contentType |-> "application/json"]

\* The fetch(url, options) call execRequest makes for a configuration.
FetchCall(cfg) ==
    [url |-> cfg.baseUrl \o cfg.endpoint,
     method |-> cfg.method,
     contentType |-> cfg.contentType,
     body |-> IF TruthyValue(cfg.body) /\ cfg.method # "GET"
              THEN JSONStringify(cfg.body) ELSE NoBody]

ReqIdle ==
    /\ config = NewRequestBuilder("/v1/decks", "GET", "")
    /\ reqPhase = "built"
    /\ call = NoCall
    /\ response = NoResponse
    /\ outcome = NoOutcome
    /\ failure = NoFailure
    /\ fetchCount = 0
    /\ invoked = NoInvocation

\* ManageService(baseUrl).prepareRequest(endpoint, method)
ReqInit ==
    /\ \E baseUrl \in BaseUrls : \E endpoint \in Endpoints :
       \E method \in HTTP_METHODS :
          config = NewRequestBuilder(endpoint, method, baseUrl)
    /\ reqPhase = "built"
    /\ call = NoCall
    /\ response = NoResponse
    /\ outcome = NoOutcome
    /\ failure = NoFailure
    /\ fetchCount = 0
    /\ invoked = NoInvocation

SetBody(body) ==
    /\ reqPhase = "built"
    /\ config' = [config EXCEPT !.body = body]
    /\ UNCHANGED <<reqPhase, call, response, outcome, failure, fetchCount, invoked>>

\* setHeaders({'Content-Type': contentType}): merged over the default.
SetHeaders(contentType) ==
    /\ reqPhase = "built"
    /\ config' = [config EXCEPT !.contentType = contentType]
    /\ UNCHANGED <<reqPhase, call, response, outcome, failure, fetchCount, invoked>>

\* execRequest up to the awaited fetch.
ExecRequest ==
    /\ reqPhase = "built"
    /\ call' = FetchCall(config)
    /\ fetchCount' = fetchCount + 1
    /\ reqPhase' = "awaiting"
    /\ UNCHANGED <<config, response, outcome, failure, invoked>>

\* fetch resolves with a response.
Respond(resp) ==
    /\ reqPhase = "awaiting"
    /\ response' = resp
    /\ outcome' = HandleResponse(resp)
    /\ reqPhase' = "settled"
    /\ UNCHANGED <<config, call, failure, fetchCount, invoked>>

\* fetch rejects: no response is obtained.
TransportFail(error) ==
    /\ reqPhase = "awaiting"
    /\ failure' = error
    /\ outcome' = Catch(error)
    /\ reqPhase' = "settled"
    /\ UNCHANGED <<config, call, response, fetchCount, invoked>>

NextRequest ==
    \/ \E body \in Payloads : SetBody(body) /\ UNCHANGED <<formVars, hookVars, notifVars, queryVars, extVars>>
    \/ \E contentType \in CONTENT_TYPES :
          SetHeaders(contentType) /\ UNCHANGED <<formVars, hookVars, notifVars, queryVars, extVars>>
    \/ ExecRequest /\ UNCHANGED <<formVars, hookVars, notifVars, queryVars, extVars>>
    \/ \E resp \in Responses : Respond(resp) /\ UNCHANGED <<formVars, hookVars, notifVars, queryVars, extVars>>
    \/ \E error \in TransportFailures :
          TransportFail(error) /\ UNCHANGED <<formVars, hookVars, notifVars, queryVars, extVars>>

(***************************************************************************)
(* deckService: one RequestBuilder call per CRUD function                  *)
(***************************************************************************)
MaxDeckCalls == 2

DeckIds == {"d1", "d2"}
DeckOperations == {"getAll", "getById", "create", "update", "delete"}

DECK_ENDPOINTS_BASE == "/v1/decks"
DECK_ENDPOINTS_DETAIL(id) == "/v1/decks/" \o id

\* obj[key], for a property the object has.
Prop(obj, key) ==
    LET i == CHOOSE i \in 1..Len(obj.members) : obj.members[i][1] = key
    IN  obj.members[i][2]

\* const { [key]: _, ...rest } = obj
Rest(obj, key) == Obj(SelectSeq(obj.members, LAMBDA m : m[1] # key))

\* The params a caller passes to the function, as its TypeScript type allows.
DeckParams(op) ==
    CASE op = "getAll" -> {Undefined}
      [] op \in {"getById", "delete"} ->
             {Obj(<< <<"id", Str(id)>> >>) : id \in DeckIds}
      [] op = "create" ->
             {CreateDeckDto,
              Obj(<< <<"name", Str("Test")>>, <<"description", Str("d")>> >>)}
      [] OTHER ->
             UNION {{Obj(<< <<"id", Str(id)>> >>),
                     Obj(<< <<"id", Str(id)>>, <<"name", Str("New")>> >>),
                     Obj(<< <<"name", Str("New")>>, <<"id", Str(id)>> >>),
                     Obj(<< <<"id", Str(id)>>, <<"name", Str("New")>>,
                            <<"description", Str("d")>> >>)} : id \in DeckIds}

DeckRequestUpdateSendsParams(baseUrl, op, params) ==
    CASE op = "getAll" -> NewRequestBuilder(DECK_ENDPOINTS_BASE, "GET", baseUrl)
      [] op = "getById" ->
             NewRequestBuilder(DECK_ENDPOINTS_DETAIL(Prop(params, "id").s),
                               "GET", baseUrl)
      [] op = "create" ->
             [NewRequestBuilder(DECK_ENDPOINTS_BASE, "POST", baseUrl)
                 EXCEPT !.body = params]
      [] op = "update" ->
             [NewRequestBuilder(DECK_ENDPOINTS_DETAIL(Prop(params, "id").s),
                                "PUT", baseUrl)
                 EXCEPT !.body = params]
      [] OTHER ->
             NewRequestBuilder(DECK_ENDPOINTS_DETAIL(Prop(params, "id").s),
                               "DELETE", baseUrl)

\* The RequestBuilder the function op configures before execRequest.
DeckRequest(baseUrl, op, params) ==
    CASE op = "getAll" -> NewRequestBuilder(DECK_ENDPOINTS_BASE, "GET", baseUrl)
      [] op = "getById" ->
             NewRequestBuilder(DECK_ENDPOINTS_DETAIL(Prop(params, "id").s),
                               "GET", baseUrl)
      [] op = "create" ->
             [NewRequestBuilder(DECK_ENDPOINTS_BASE, "POST", baseUrl)
                 EXCEPT !.body = params]
      [] op = "update" ->
             [NewRequestBuilder(DECK_ENDPOINTS_DETAIL(Prop(params, "id").s),
                                "PUT", baseUrl)
                 EXCEPT !.body = Rest(params, "id")]
      [] OTHER ->
             NewRequestBuilder(DECK_ENDPOINTS_DETAIL(Prop(params, "id").s),
                               "DELETE", baseUrl)

\* api = ManageService(API_URL), API_URL = NEXT_PUBLIC_API_URL || ''; no
\* function of the service was invoked yet.
DeckInit ==
    /\ \E baseUrl \in BaseUrls :
          config = NewRequestBuilder(DECK_ENDPOINTS_BASE, "GET", baseUrl)
    /\ reqPhase = "built"
    /\ call = NoCall
    /\ response = NoResponse
    /\ outcome = NoOutcome
    /\ failure = NoFailure
    /\ fetchCount = 0
    /\ invoked = NoInvocation

\* deckService[op](params): prepareRequest, setBody where the function sets
\* one, and execRequest up to the awaited fetch.
Invoke(op, params) ==
    /\ reqPhase # "awaiting"
    /\ invoked.n < MaxDeckCalls
    /\ config' = DeckRequest(config.baseUrl, op, params)
    /\ call' = FetchCall(config')
    /\ fetchCount' = fetchCount + 1
    /\ reqPhase' = "awaiting"
    /\ response' = NoResponse
    /\ outcome' = NoOutcome
    /\ failure' = NoFailure
    /\ invoked' = [op |-> op, params |-> params, n |-> invoked.n + 1]

NextDeck ==
    \/ \E op \in DeckOperations : \E params \in DeckParams(op) :
          Invoke(op, params) /\ UNCHANGED <<formVars, hookVars, notifVars, queryVars, extVars>>
    \/ \E resp \in Responses : Respond(resp) /\ UNCHANGED <<formVars, hookVars, notifVars, queryVars, extVars>>
    \/ \E error \in TransportFailures :
          TransportFail(error) /\ UNCHANGED <<formVars, hookVars, notifVars, queryVars, extVars>>

(***************************************************************************)
(* useServiceQuery: the query hook over useQuery                           *)
(***************************************************************************)
DEFAULT_RETRY_COUNT == 3
DEFAULT_STALE_TIME == 5 * 60 * 1000
DEFAULT_GC_TIME == 10 * 60 * 1000
DEFAULT_REFETCH_ON_WINDOW_FOCUS == TRUE
DEFAULT_REFETCH_INTERVAL == FALSE

\* The options of UseServiceQueryOptions, each with a value a caller passes
\* that differs from the default.
QueryOptionMembers ==
    << <<"enabled", Bool(FALSE)>>, <<"retry", Num(0)>>,
       <<"staleTime", Num(1 * 60 * 1000)>>, <<"gcTime", Num(0)>>,
       <<"refetchOnWindowFocus", Bool(FALSE)>>,
       <<"refetchInterval", Num(30 * 1000)>> >>

QueryOptionNames == {QueryOptionMembers[k][1] : k \in 1..Len(QueryOptionMembers)}

\* The options objects: one for every set of options.
OptionsObject(names) == Obj(SelectSeq(QueryOptionMembers, LAMBDA m : m[1] \in names))
OptionsObjects == {OptionsObject(names) : names \in SUBSET QueryOptionNames}

\* The params values callers pass to a service with one parameter.
QueryParams ==
    {Obj(<< <<"id", Str("d1")>> >>), Obj(<< <<"enabled", Bool(TRUE)>> >>),
     Str("d1"), Num(7), Num(0)}

QueryKeys == {<< Str("decks") >>, << Str("decks"), Str("d1") >>}

NoArgument == [t |-> "no argument"]
NoQueryArgs == [shape |-> "none"]
NoQuery == [rendered |-> FALSE]
NoServiceCall == [called |-> FALSE]

\* The calls of useServiceQuery the two overloads admit:
\* (queryKey, service[, options]) and (queryKey, service, params[, options]).
QueryCalls ==
    { [shape |-> "options", queryKey |-> k, third |-> o, fourth |-> Undefined] :
         k \in QueryKeys, o \in OptionsObjects \cup {Undefined} }
    \cup
    { [shape |-> "params", queryKey |-> k, third |-> p, fourth |-> o] :
         k \in QueryKeys, p \in QueryParams,
         o \in {Undefined, OptionsObject({}), OptionsObject({"enabled"}),
                OptionsObject({"gcTime", "refetchInterval"})} }

HasProp(obj, key) == \E i \in 1..Len(obj.members) : obj.members[i][1] = key

\* `key in (value as object || {})`: a TypeError for a truthy primitive.
In(key, value) ==
    IF ~TruthyValue(value) THEN [threw |-> FALSE, value |-> FALSE]
    ELSE IF value.t = "object" THEN [threw |-> FALSE, value |-> HasProp(value, key)]
    ELSE IF value.t = "array" THEN [threw |-> FALSE, value |-> FALSE]
    ELSE [threw |-> TRUE]

\* hasParams: whether the third argument is taken for params.
HasParams(paramsOrOptions, options) ==
    IF options # Undefined THEN [threw |-> FALSE, value |-> TRUE]
    ELSE IF paramsOrOptions = Undefined THEN [threw |-> FALSE, value |-> FALSE]
    ELSE IF In("enabled", paramsOrOptions).threw THEN [threw |-> TRUE]
    ELSE [threw |-> FALSE,
          value |-> ~(\/ In("enabled", paramsOrOptions).value
                      \/ In("retry", paramsOrOptions).value
                      \/ In("staleTime", paramsOrOptions).value)]

\* finalOptions?.[name] ?? default
OptionOr(finalOptions, name, default) ==
    IF finalOptions = Undefined THEN default
    ELSE IF finalOptions.t = "object" /\ HasProp(finalOptions, name)
    THEN Prop(finalOptions, name)
    ELSE default

\* The body of useServiceQuery up to useQuery(queryOptions): the options,
\* and the argument queryFn calls the service with.
QueryOptions(queryKey, paramsOrOptions, options) ==
    LET hasParams == HasParams(paramsOrOptions, options)
    IN  IF hasParams.threw
        THEN [rendered |-> TRUE, threw |-> TRUE]
        ELSE LET params == IF hasParams.value THEN paramsOrOptions ELSE Undefined
                 finalOptions == IF hasParams.value THEN options ELSE paramsOrOptions
             IN  [rendered |-> TRUE,
                  threw |-> FALSE,
                  queryKey |-> IF params # Undefined THEN Append(queryKey, params)
                                                     ELSE queryKey,
                  argument |-> IF params # Undefined THEN params ELSE NoArgument,
                  enabled |-> OptionOr(finalOptions, "enabled", Bool(TRUE)),
                  retry |-> OptionOr(finalOptions, "retry", Num(DEFAULT_RETRY_COUNT)),
                  staleTime |-> OptionOr(finalOptions, "staleTime",
                                         Num(DEFAULT_STALE_TIME)),
                  gcTime |-> OptionOr(finalOptions, "gcTime", Num(DEFAULT_GC_TIME)),
                  refetchOnWindowFocus |->
                      OptionOr(finalOptions, "refetchOnWindowFocus",
                               Bool(DEFAULT_REFETCH_ON_WINDOW_FOCUS)),
                  refetchInterval |->
                      OptionOr(finalOptions, "refetchInterval",
                               Bool(DEFAULT_REFETCH_INTERVAL))]

\* No component calls useServiceQuery.
QueryIdle ==
    /\ queryArgs = NoQueryArgs
    /\ query = NoQuery
    /\ serviceCall = NoServiceCall

\* A component is about to render with a call of useServiceQuery.
QueryInit ==
    /\ queryArgs \in QueryCalls
    /\ query = NoQuery
    /\ serviceCall = NoServiceCall

\* The component renders: useServiceQuery runs (or throws).
Render ==
    /\ queryArgs # NoQueryArgs
    /\ query = NoQuery
    /\ query' = QueryOptions(queryArgs.queryKey, queryArgs.third, queryArgs.fourth)
    /\ UNCHANGED <<queryArgs, serviceCall>>

\* useQuery runs queryFn of an enabled query.
QueryFn ==
    /\ query # NoQuery
    /\ ~query.threw
    /\ query.enabled = Bool(TRUE)
    /\ serviceCall = NoServiceCall
    /\ serviceCall' = [called |-> TRUE, argument |-> query.argument]
    /\ UNCHANGED <<queryArgs, query>>

NextQuery ==
    \/ Render /\ UNCHANGED <<formVars, hookVars, notifVars, reqVars, extVars>>
    \/ QueryFn /\ UNCHANGED <<formVars, hookVars, notifVars, reqVars, extVars>>

(***************************************************************************)
(* useNotification: the consumer hook of the NotificationContext           *)
(***************************************************************************)
MaxDepth == 3

\* The components that may stand above a consumer.
Components == {"NotificationProvider", "QueryProvider", "div"}

NotRendered == [rendered |-> FALSE]

\* value={{ showNotification, success, error, info, warning }}
ProviderValue == [t |-> "object", functions |-> InsertionFunctions]

\* createContext<NotificationContextType | undefined>(undefined)
DefaultContext == Undefined

\* useContext(NotificationContext) below the ancestors: the value of the
\* nearest NotificationContext.Provider, the default where there is none.
UseContext(above) ==
    IF \E k \in 1..Len(above) : above[k] = "NotificationProvider"
    THEN ProviderValue ELSE DefaultContext

useNotificationReturnsNoOp(above) ==
    LET context == UseContext(above)
    IN  IF ~TruthyValue(context)
        THEN [rendered |-> TRUE, threw |-> FALSE,
              value |-> [t |-> "object", functions |-> {}]]
        ELSE [rendered |-> TRUE, threw |-> FALSE, value |-> context]

\* useNotification()
useNotification(above) ==
    LET context == UseContext(above)
    IN  IF ~TruthyValue(context)
        THEN [rendered |-> TRUE, threw |-> TRUE,
              message |-> "useNotification must be used within NotificationProvider"]
        ELSE [rendered |-> TRUE, threw |-> FALSE, value |-> context]

\* No consumer component is under study.
ConsumerIdle ==
    /\ ancestors = <<>>
    /\ consumer = NotRendered

\* A consumer component somewhere in a tree, not rendered yet.
ConsumerInit ==
    /\ \E depth \in 0..MaxDepth : ancestors \in [1..depth -> Components]
    /\ consumer = NotRendered

\* The consumer component renders: it calls useNotification().
RenderConsumer ==
    /\ consumer = NotRendered
    /\ consumer' = useNotification(ancestors)
    /\ UNCHANGED ancestors

\* The rendered consumer calls one of the functions useNotification returned.
CallInsertion(fn, message, typeArg, given, durationArg) ==
    /\ consumer.rendered
    /\ ~consumer.threw
    /\ fn \in consumer.value.functions
    /\ Insert(fn, message, typeArg, given, durationArg)
    /\ UNCHANGED consumerVars

NextConsumer ==
    \/ RenderConsumer /\ UNCHANGED <<formVars, hookVars, notifVars, reqVars, queryVars, fieldVars, apiVars, flowVars, builderVars>>
    \/ /\ Len(issued) < MaxApiCalls
       /\ \E fn \in InsertionFunctions : \E message \in Messages :
          \E typeArg \in TypeArgs(fn) :
          \E given \in BOOLEAN : \E durationArg \in DurationChoices(given) :
             CallInsertion(fn, message, typeArg, given, durationArg)
       /\ UNCHANGED <<formVars, hookVars, reqVars, queryVars, fieldVars, apiVars, flowVars, builderVars>>

(***************************************************************************)
(* Field: the renderer that dispatches a FieldConfig to its component      *)
(***************************************************************************)
\* Values of config.type that are none of the eight variants (a config that
\* did not pass the type checker).
UnknownTypes == {"date", ""}

\* config.options of a select or radio configuration: the option values.
OptionLists == {<<>>, <<"a">>, <<"a", "b">>}

\* The props Field is rendered with.
FieldProps ==
    { p \in [config : [name : {"f1", "f2"}, type : FieldType \cup UnknownTypes,
                       required : BOOLEAN, disabled : BOOLEAN,
                       options : OptionLists],
             disabled : BOOLEAN] :
         p.config.options # <<>> => p.config.type \in {"select", "radio"} }

NoProps == [given |-> FALSE]
NoElement == [rendered |-> FALSE]

\* return null
RendersNothing == [rendered |-> TRUE, component |-> Null, controls |-> <<>>]

\* A form control: its tag, type attribute, name, value attribute and the
\* required and disabled attributes every field component sets.
Control(tag, type, cfg, value, disabled) ==
    [tag |-> tag, type |-> type, name |-> cfg.name, value |-> value,
     required |-> cfg.required, disabled |-> FieldDisabled(cfg, disabled)]

\* The element of a field component that renders one control.
Widget(component, tag, type, cfg, disabled) ==
    [rendered |-> TRUE, component |-> component,
     controls |-> << Control(tag, type, cfg, Null, disabled) >>]

TextField(cfg, disabled) == Widget("TextField", "input", "text", cfg, disabled)
EmailField(cfg, disabled) == Widget("EmailField", "input", "email", cfg, disabled)
PasswordField(cfg, disabled) ==
    Widget("PasswordField", "input", "password", cfg, disabled)
NumberField(cfg, disabled) == Widget("NumberField", "input", "number", cfg, disabled)
TextareaField(cfg, disabled) == Widget("TextareaField", "textarea", Null, cfg, disabled)
SelectField(cfg, disabled) == Widget("SelectField", "select", Null, cfg, disabled)
CheckboxField(cfg, disabled) ==
    Widget("CheckboxField", "input", "checkbox", cfg, disabled)

\* One <input type="radio" name={config.name}> for every option.
RadioField(cfg, disabled) ==
    [rendered |-> TRUE, component |-> "RadioField",
     controls |-> [k \in 1..Len(cfg.options) |->
                      Control("input", "radio", cfg, cfg.options[k], disabled)]]

FieldUnknownAsText(cfg, disabled) ==
    CASE cfg.type = "email" -> EmailField(cfg, disabled)
      [] cfg.type = "password" -> PasswordField(cfg, disabled)
      [] cfg.type = "number" -> NumberField(cfg, disabled)
      [] cfg.type = "textarea" -> TextareaField(cfg, disabled)
      [] cfg.type = "select" -> SelectField(cfg, disabled)
      [] cfg.type = "checkbox" -> CheckboxField(cfg, disabled)
      [] cfg.type = "radio" -> RadioField(cfg, disabled)
      [] OTHER -> TextField(cfg, disabled)

\* Field({ config, disabled }): the switch over config.type.
Field(cfg, disabled) ==
    CASE cfg.type = "text" -> TextField(cfg, disabled)
      [] cfg.type = "email" -> EmailField(cfg, disabled)
      [] cfg.type = "password" -> PasswordField(cfg, disabled)
      [] cfg.type = "number" -> NumberField(cfg, disabled)
      [] cfg.type = "textarea" -> TextareaField(cfg, disabled)
      [] cfg.type = "select" -> SelectField(cfg, disabled)
      [] cfg.type = "checkbox" -> CheckboxField(cfg, disabled)
      [] cfg.type = "radio" -> RadioField(cfg, disabled)
      [] OTHER -> RendersNothing

\* No Field element is under study.
FieldIdle ==
    /\ fieldProps = NoProps
    /\ element = NoElement

FieldInit ==
    /\ fieldProps \in FieldProps
    /\ element = NoElement

\* React renders the Field element.
RenderField ==
    /\ fieldProps # NoProps
    /\ element = NoElement
    /\ element' = Field(fieldProps.config, fieldProps.disabled)
    /\ UNCHANGED fieldProps

NextField ==
    RenderField /\ UNCHANGED <<formVars, hookVars, notifVars, reqVars, queryVars,
                               consumerVars, apiVars, flowVars, builderVars>>

(***************************************************************************)
(* Backend: DecksController and DecksService over the deck table           *)
(***************************************************************************)
NoReply == [status |-> 0, body |-> Undefined]

\* The JSON bodies of POST /v1/decks requests: of the declared type
\* { name: string; description?: string }, without name, and no object.
CreateBodies ==
    {CreateDeckDto,
     Obj(<< <<"name", Str("Test")>>, <<"description", Str("d")>> >>),
     Obj(<< <<"name", Str("Phrasal Verbs")>> >>),
     Obj(<< <<"name", Str(" ")>> >>),
     Obj(<< <<"name", Str("")>> >>),
     Obj(<< <<"name", Str("")>>, <<"description", Str("d")>> >>),
     Obj(<< <<"description", Str("d")>> >>),
     Obj(<<>>),
     JsNull,
     Undefined}

\* value?.[key]
OptionalProp(value, key) ==
    IF value.t = "object" /\ HasProp(value, key) THEN Prop(value, key) ELSE Undefined

\* The id the persistence layer issues for the next row.
NextDeckId(rows) == "d" \o ToString(Len(rows) + 1)

\* DecksService.create: prisma.deck.create({ data: { name, description } });
\* the table after it and the created row.
DecksServiceCreate(rows, name, description) ==
    LET row == [id |-> NextDeckId(rows), name |-> name, description |-> description]
    IN  [decks |-> Append(rows, row), created |-> row]

\* The created row as the JSON value of the response.
DeckObject(row) ==
    Obj(<< <<"id", Str(row.id)>>, <<"name", row.name>> >>
        \o (IF row.description = Undefined THEN <<>>
            ELSE << <<"description", row.description>> >>))

DecksControllerCreateUnchecked(rows, body) ==
    LET r == DecksServiceCreate(rows, OptionalProp(body, "name"),
                                OptionalProp(body, "description"))
    IN  [decks |-> r.decks, returned |-> DeckObject(r.created)]

\* DecksController.create(body): the table after it and what it returns.
DecksControllerCreate(rows, body) ==
    IF ~TruthyValue(OptionalProp(body, "name"))
    THEN [decks |-> rows,
          returned |-> Obj(<< <<"error", Str("name is required")>> >>)]
    ELSE LET r == DecksServiceCreate(rows, OptionalProp(body, "name"),
                                     OptionalProp(body, "description"))
         IN  [decks |-> r.decks, returned |-> DeckObject(r.created)]

\* DecksService.findAll: id, name and the number of cards of every row (no
\* route of the backend creates a card).
FindAll(rows) ==
    Arr([k \in 1..Len(rows) |->
            Obj(<< <<"id", Str(rows[k].id)>>, <<"name", rows[k].name>>,
                   <<"count", Num(0)>> >>)])

\* The backend is not under study.
ApiIdle ==
    /\ decks = <<>>
    /\ apiReply = NoReply

\* The backend over an empty deck table.
ApiInit ==
    /\ decks = <<>>
    /\ apiReply = NoReply

\* POST /v1/decks with the body: a handler that returns gives status 201.
PostDecks(body) ==
    /\ Len(decks) < MaxDecks
    /\ LET r == DecksControllerCreate(decks, body)
       IN  /\ decks' = r.decks
           /\ apiReply' = [status |-> 201, body |-> r.returned]

\* GET /v1/decks
GetDecks ==
    /\ apiReply' = [status |-> 200, body |-> FindAll(decks)]
    /\ UNCHANGED decks

NextApi ==
    \/ \E body \in CreateBodies :
          PostDecks(body) /\ UNCHANGED <<formVars, hookVars, notifVars, reqVars,
                                         queryVars, consumerVars, fieldVars, flowVars, builderVars>>
    \/ GetDecks /\ UNCHANGED <<formVars, hookVars, notifVars, reqVars,
                               queryVars, consumerVars, fieldVars, flowVars, builderVars>>

(***************************************************************************)
(* CreateDeckForm: the create mutation with its callbacks, over            *)
(* deckService.create and the backend                                      *)
(***************************************************************************)
DECKS_KEY == "decks"
DECKS_QUERY_KEYS_all == << Str(DECKS_KEY) >>

\* `${value}` in a template literal.
TemplateString(value) ==
    CASE value.t = "string" -> value.s
      [] value.t = "number" -> ToString(value.n)
      [] value.t = "null" -> "null"
      [] OTHER -> "undefined"

handleCreateSuccessWithoutInvalidation(data) ==
    << [effect |-> "success",
        message |-> "Deck \"" \o TemplateString(OptionalProp(data, "name"))
                    \o "\" created successfully!"] >>

\* handleCreateSuccess(data): what it does, in order.
handleCreateSuccess(data) ==
    << [effect |-> "invalidateQueries", queryKey |-> DECKS_QUERY_KEYS_all],
       [effect |-> "success",
        message |-> "Deck \"" \o TemplateString(OptionalProp(data, "name"))
                    \o "\" created successfully!"] >>

\* handleCreateError(err)
handleCreateError(err) ==
    << [effect |-> "console.error", argument |-> err],
       [effect |-> "error", message |-> "Failed to create deck. Please try again."] >>

\* The callbacks of the hook's calls, run in order.
RECURSIVE RunCallbacks(_)
RunCallbacks(calls) ==
    IF calls = <<>> THEN <<>>
    ELSE (IF Head(calls).callback = "onSuccess"
          THEN handleCreateSuccess(Head(calls).argument)
          ELSE handleCreateError(Head(calls).argument))
         \o RunCallbacks(Tail(calls))

\* The notification an effect inserts: success(message) or error(message).
Notifies(effect) == effect.effect \in {"success", "error"}

\* The params createDeck.fetch is called with: values of type CreateDeckDto.
CreateDeckDtos ==
    { Obj(<< <<"name", Str(name)>> >> \o Member("description", d)) :
         name \in {"", " ", "a"}, d \in {Undefined, Str("d")} }

\* An HTTP response of the backend: a handler that returned gives the JSON
\* of what it returned.
HttpResponse(reply) ==
    [status |-> reply.status, statusText |-> StatusPhrase(reply.status),
     body |-> JSONStringify(reply.body)]

\* The response of the framework to a handler that threw.
InternalServerError ==
    [status |-> 500, statusText |-> "Internal Server Error",
     body |-> "{\"statusCode\":500,\"message\":\"Internal server error\"}"]

\* The callbacks of CreateDeckForm did nothing yet.
FlowIdle == effects = <<>>

\* createDeck = useService(deckService.create, { onSuccess, onError }): the
\* default retry of a mutation is none.
CreateHookInit ==
    /\ retry = 0
    /\ mutation = IdleMutation
    /\ current = 0
    /\ serviceCalls = <<>>
    /\ callCount = 0
    /\ hookEvent = "mount"
    /\ loadedOnce = FALSE
    /\ callbacks = {"onSuccess", "onError"}
    /\ invocations = <<>>
    /\ lastSettled = NothingSettled

\* createDeck.fetch(params): the mutation starts and calls
\* deckService.create(params), which issues the request.
CreateFetch(params) ==
    /\ Unsettled = {}
    /\ Fetch
    /\ Invoke("create", params)

\* The backend handles the request and answers: status 201 for the POST
\* handler that returned.
BackendRespond ==
    /\ reqPhase = "awaiting"
    /\ call.method = "POST"
    /\ PostDecks(IF call.body = NoBody THEN Undefined
                 ELSE ParseJson(call.body).value)
    /\ Respond(HttpResponse(apiReply'))

\* The query of the persistence layer fails (the database is down): the
\* handler throws and the framework answers 500.
BackendFail ==
    /\ Respond(InternalServerError)
    /\ UNCHANGED apiVars

\* The promise of deckService.create settles as execRequest did: the
\* mutation settles and runs its callback.
CreateSettle ==
    /\ reqPhase = "settled"
    /\ current \in Unsettled
    /\ IF outcome.kind = "resolved"
       THEN ServiceResolve(current, outcome.payload)
       ELSE ServiceReject(current, outcome.message)
    /\ LET done == RunCallbacks(SubSeq(invocations', Len(invocations) + 1,
                                       Len(invocations')))
           shown == SelectSeq(done, Notifies)
       IN  /\ effects' = effects \o done
           /\ IF shown = <<>> THEN UNCHANGED notifVars
              ELSE Insert(shown[1].effect, shown[1].message, Omitted, FALSE,
                          DefaultDuration)

\* The create mutation of CreateDeckForm, called with any CreateDeckDto.
NextCreate ==
    \/ \E params \in CreateDeckDtos :
          CreateFetch(params) /\ UNCHANGED <<formVars, notifVars, queryVars,
                                            consumerVars, fieldVars, apiVars, flowVars, builderVars>>
    \/ BackendRespond /\ UNCHANGED <<formVars, hookVars, notifVars, queryVars,
                                     consumerVars, fieldVars, flowVars, builderVars>>
    \/ BackendFail /\ UNCHANGED <<formVars, hookVars, notifVars, queryVars,
                                  consumerVars, fieldVars, flowVars, builderVars>>
    \/ \E error \in TransportFailures :
          TransportFail(error) /\ UNCHANGED <<formVars, hookVars, notifVars, queryVars,
                                             consumerVars, fieldVars, apiVars, flowVars, builderVars>>
    \/ CreateSettle /\ UNCHANGED <<formVars, reqVars, queryVars, consumerVars,
                                   fieldVars, apiVars, builderVars>>

(***************************************************************************)
(* CreateDeckForm: the FormBuilder over the create mutation                *)
(***************************************************************************)
createDeckFormFields ==
    << [name |-> "name", type |-> "text", required |-> TRUE, disabled |-> FALSE,
        label |-> "Deck Name", defaultChecked |-> FALSE],
       [name |-> "description", type |-> "text", required |-> FALSE,
        disabled |-> FALSE, label |-> "Description", defaultChecked |-> FALSE] >>

\* The values object handleSubmit of the FormBuilder assembles: one
\* property for every field, in the order of the fields.
ValuesObject(fs, values) == Obj([i \in 1..Len(fs) |-> <<fs[i].name, values[i]>>])

\* <FormBuilder fields={createDeckFormFields} resetOnSubmit={true} .../>
CreateFormInit ==
    /\ fields = createDeckFormFields
    /\ resetOnSubmit = TRUE
    /\ controls = InitialControls(fields)
    /\ formData = InitialFormData(fields)
    /\ inFlight = 0
    /\ handlerArg = NoCall
    /\ thrown = NoError
    /\ uncaught = NoError
    /\ lastEvent = "render"

\* A submit event: handleSubmit of the FormBuilder, whose onSubmit is
\* handleSubmit of CreateDeckForm: createDeck.fetch(values).
SubmitCreate ==
    /\ FormSubmit
    /\ IF lastEvent' = "submitted"
       THEN CreateFetch(ValuesObject(fields, handlerArg'))
       ELSE UNCHANGED <<hookVars, reqVars>>

\* The mutation settles, runs its callback, and the promise createDeck.fetch
\* returned settles with it: the transition of the FormBuilder goes on.
SettleCreate ==
    /\ CreateSettle
    /\ IF outcome.kind = "resolved"
       THEN FormHandlerResolve
       ELSE FormHandlerReject(outcome.message)

NextCreateForm ==
    \/ \E i \in 1..Len(fields) : \E raw \in RawInputs(fields[i].type) :
          FormEdit(i, raw) /\ UNCHANGED <<hookVars, notifVars, reqVars, queryVars, extVars>>
    \/ SubmitCreate /\ UNCHANGED <<notifVars, queryVars, extVars>>
    \/ BackendRespond /\ UNCHANGED <<formVars, hookVars, notifVars, queryVars,
                                     consumerVars, fieldVars, flowVars, builderVars>>
    \/ BackendFail /\ UNCHANGED <<formVars, hookVars, notifVars, queryVars,
                                  consumerVars, fieldVars, flowVars, builderVars>>
    \/ \E error \in TransportFailures :
          TransportFail(error) /\ UNCHANGED <<formVars, hookVars, notifVars, queryVars,
                                             consumerVars, fieldVars, apiVars, flowVars, builderVars>>
    \/ SettleCreate /\ UNCHANGED <<reqVars, queryVars, consumerVars, fieldVars, apiVars,
                                   builderVars>>
    \/ \E id \in Ids(notifications) :
          Close(id) /\ UNCHANGED <<formVars, hookVars, reqVars, queryVars, extVars>>

(***************************************************************************)
(* RequestBuilder objects: what separate builders share                    *)
(***************************************************************************)
\* The arguments the callers of the model pass to the setters.
QueryParamSets == { Obj(<< <<"page", Num(1)>> >>),
                    Obj(<< <<"q", Str("a")>>, <<"all", Bool(TRUE)>> >>) }
BuilderBodies == { Obj(<< <<"name", Str("a")>> >>), Obj(<< <<"name", Str("d")>> >>) }
HeaderSets == { {<<"Content-Type", "multipart/form-data">>},
                {<<"Authorization", "Bearer t">>} }
NoOp == [kind |-> "none", builder |-> 0]

\* const api = ManageService(API_URL), with NEXT_PUBLIC_API_URL set.
API_URL == "http://localhost:3001"

\* { ...a, ...b } of two header objects: the entries of b replace those of
\* a with the same name.
Spread(a, b) == {p \in a : \A q \in b : q[1] # p[1]} \cup b

RequestBuilderSharingConfig(h, endpoint, method, baseUrl) ==
    IF h = <<>>
    THEN [heap |-> << [entries |-> {<<"Content-Type", "application/json">>}],
                      [endpoint |-> endpoint, method |-> method,
                       queryParams |-> Undefined, body |-> Undefined,
                       headers |-> 1] >>,
          builder |-> [config |-> 2, baseUrl |-> baseUrl]]
    ELSE [heap |-> [h EXCEPT ![2].endpoint = endpoint, ![2].method = method],
          builder |-> [config |-> 2, baseUrl |-> baseUrl]]

\* new RequestBuilder(endpoint, method, baseUrl): the constructor allocates
\* a headers object and a config object of its own.
RequestBuilder(h, endpoint, method, baseUrl) ==
    [heap |-> h \o << [entries |-> {<<"Content-Type", "application/json">>}],
                      [endpoint |-> endpoint, method |-> method,
                       queryParams |-> Undefined, body |-> Undefined,
                       headers |-> Len(h) + 1] >>,
     builder |-> [config |-> Len(h) + 2, baseUrl |-> baseUrl]]

\* this.config.queryParams = params
setQueryParams(h, this, params) == [h EXCEPT ![this.config].queryParams = params]

\* this.config.body = body
setBody(h, this, body) == [h EXCEPT ![this.config].body = body]

\* this.config.headers = { ...this.config.headers, ...headers }: a new
\* headers object.
setHeaders(h, this, headers) ==
    [Append(h, [entries |-> Spread(h[h[this.config].headers].entries, headers)])
        EXCEPT ![this.config].headers = Len(h) + 1]

\* String(value) of a query parameter.
StringOf(value) ==
    IF value.t = "boolean" THEN (IF value.b THEN "true" ELSE "false")
    ELSE TemplateString(value)

\* URLSearchParams.toString() after one append per entry of
\* Object.entries(queryParams).
RECURSIVE URLSearchParamsToString(_)
URLSearchParamsToString(entries) ==
    IF entries = <<>> THEN ""
    ELSE entries[1][1] \o "=" \o StringOf(entries[1][2])
         \o (IF Len(entries) > 1 THEN "&" ELSE "")
         \o URLSearchParamsToString(Tail(entries))

\* The fetch(url, options) call execRequest of the builder makes.
execRequest(h, this) ==
    LET cfg == h[this.config]
    IN  [url |-> this.baseUrl \o cfg.endpoint
                 \o (IF cfg.queryParams # Undefined
                     THEN "?" \o URLSearchParamsToString(cfg.queryParams.members)
                     ELSE ""),
         method |-> cfg.method,
         headers |-> h[cfg.headers].entries,
         body |-> IF TruthyValue(cfg.body) /\ cfg.method # "GET"
                  THEN JSONStringify(cfg.body) ELSE NoBody]

BuilderIdle ==
    /\ heap = <<>>
    /\ builders = <<>>
    /\ lastCalls = <<>>
    /\ lastOp = NoOp
    /\ builderOps = 0

\* ManageService(baseUrl).prepareRequest(endpoint, method)
PrepareRequest(baseUrl, endpoint, method) ==
    /\ Len(builders) < MaxBuilders
    /\ builderOps < MaxBuilderOps
    /\ LET new == RequestBuilder(heap, endpoint, method, baseUrl)
       IN  /\ heap' = new.heap
           /\ builders' = Append(builders, new.builder)
    /\ lastCalls' = Append(lastCalls, NoCall)
    /\ lastOp' = [kind |-> "prepareRequest", builder |-> Len(builders) + 1]
    /\ builderOps' = builderOps + 1

BuilderSetQueryParams(b, params) ==
    /\ builderOps < MaxBuilderOps
    /\ heap' = setQueryParams(heap, builders[b], params)
    /\ lastOp' = [kind |-> "setQueryParams", builder |-> b]
    /\ builderOps' = builderOps + 1
    /\ UNCHANGED <<builders, lastCalls>>

BuilderSetBody(b, body) ==
    /\ builderOps < MaxBuilderOps
    /\ heap' = setBody(heap, builders[b], body)
    /\ lastOp' = [kind |-> "setBody", builder |-> b]
    /\ builderOps' = builderOps + 1
    /\ UNCHANGED <<builders, lastCalls>>

BuilderSetHeaders(b, headers) ==
    /\ builderOps < MaxBuilderOps
    /\ heap' = setHeaders(heap, builders[b], headers)
    /\ lastOp' = [kind |-> "setHeaders", builder |-> b]
    /\ builderOps' = builderOps + 1
    /\ UNCHANGED <<builders, lastCalls>>

\* builder.execRequest() up to the fetch call.
BuilderExecRequest(b) ==
    /\ builderOps < MaxBuilderOps
    /\ lastCalls' = [lastCalls EXCEPT ![b] = execRequest(heap, builders[b])]
    /\ lastOp' = [kind |-> "execRequest", builder |-> b]
    /\ builderOps' = builderOps + 1
    /\ UNCHANGED <<heap, builders>>

NextBuilder ==
    \/ \E endpoint \in Endpoints : \E method \in {"GET", "POST"} :
          PrepareRequest(API_URL, endpoint, method)
          /\ UNCHANGED <<formVars, hookVars, notifVars, reqVars, queryVars,
                         consumerVars, fieldVars, apiVars, flowVars>>
    \/ \E b \in 1..Len(builders) : \E params \in QueryParamSets :
          BuilderSetQueryParams(b, params)
          /\ UNCHANGED <<formVars, hookVars, notifVars, reqVars, queryVars,
                         consumerVars, fieldVars, apiVars, flowVars>>
    \/ \E b \in 1..Len(builders) : \E body \in BuilderBodies :
          BuilderSetBody(b, body)
          /\ UNCHANGED <<formVars, hookVars, notifVars, reqVars, queryVars,
                         consumerVars, fieldVars, apiVars, flowVars>>
    \/ \E b \in 1..Len(builders) : \E headers \in HeaderSets :
          BuilderSetHeaders(b, headers)
          /\ UNCHANGED <<formVars, hookVars, notifVars, reqVars, queryVars,
                         consumerVars, fieldVars, apiVars, flowVars>>
    \/ \E b \in 1..Len(builders) :
          BuilderExecRequest(b)
          /\ UNCHANGED <<formVars, hookVars, notifVars, reqVars, queryVars,
                         consumerVars, fieldVars, apiVars, flowVars>>

\* The components the other specifications do not study, as constructed.
ExtIdle == ConsumerIdle /\ FieldIdle /\ ApiIdle /\ FlowIdle /\ BuilderIdle

(***************************************************************************)
(* Specifications: one component runs, the others stay as constructed      *)
(***************************************************************************)
InitForm == FormInit /\ HookIdle /\ NotifIdle /\ ReqIdle /\ QueryIdle /\ ExtIdle

SpecForm == InitForm /\ [][NextForm]_vars

\* The promise onSubmit returned settles: the handlers this model studies
\* (a mutation, a fetch) settle every call, and the continuation of an
\* await is a microtask the event loop always runs.
HandlerSettles == HandlerResolve \/ HandlerReject

InitFormFair ==
    FormOfAtMost(MaxFairFields) /\ HookIdle /\ NotifIdle /\ ReqIdle /\ QueryIdle /\ ExtIdle

SpecFormFair == InitFormFair /\ [][NextForm]_vars /\ WF_vars(HandlerSettles)

InitHook == FormIdle /\ HookInit /\ NotifIdle /\ ReqIdle /\ QueryIdle /\ ExtIdle

SpecHook == InitHook /\ [][NextHook]_vars

InitNotif == FormIdle /\ HookIdle /\ NotifIdle /\ ReqIdle /\ QueryIdle /\ ExtIdle

SpecNotif == InitNotif /\ [][NextNotif]_vars

SpecNotifApi == InitNotif /\ [][NextNotifApi]_vars

InitRequest == FormIdle /\ HookIdle /\ NotifIdle /\ ReqInit /\ QueryIdle /\ ExtIdle

SpecRequest == InitRequest /\ [][NextRequest]_vars

InitDeck == FormIdle /\ HookIdle /\ NotifIdle /\ DeckInit /\ QueryIdle /\ ExtIdle

SpecDeck == InitDeck /\ [][NextDeck]_vars

InitConsumer ==
    /\ FormIdle /\ HookIdle /\ NotifIdle /\ ReqIdle /\ QueryIdle
    /\ ConsumerInit /\ FieldIdle /\ ApiIdle /\ FlowIdle /\ BuilderIdle

InitField ==
    /\ FormIdle /\ HookIdle /\ NotifIdle /\ ReqIdle /\ QueryIdle
    /\ ConsumerIdle /\ FieldInit /\ ApiIdle /\ FlowIdle /\ BuilderIdle

InitApi ==
    /\ FormIdle /\ HookIdle /\ NotifIdle /\ ReqIdle /\ QueryIdle
    /\ ConsumerIdle /\ FieldIdle /\ ApiInit /\ FlowIdle /\ BuilderIdle

InitCreate ==
    /\ FormIdle /\ CreateHookInit /\ NotifIdle /\ DeckInit /\ QueryIdle
    /\ ConsumerIdle /\ FieldIdle /\ ApiInit /\ FlowIdle /\ BuilderIdle

SpecCreate == InitCreate /\ [][NextCreate]_vars

InitCreateForm ==
    /\ CreateFormInit /\ CreateHookInit /\ NotifIdle /\ DeckInit /\ QueryIdle
    /\ ConsumerIdle /\ FieldIdle /\ ApiInit /\ FlowIdle /\ BuilderIdle

SpecCreateForm == InitCreateForm /\ [][NextCreateForm]_vars

InitBuilder ==
    /\ FormIdle /\ HookIdle /\ NotifIdle /\ ReqIdle /\ QueryIdle
    /\ ConsumerIdle /\ FieldIdle /\ ApiIdle /\ FlowIdle /\ BuilderIdle

SpecBuilder == InitBuilder /\ [][NextBuilder]_vars

SpecApi == InitApi /\ [][NextApi]_vars

SpecField == InitField /\ [][NextField]_vars

SpecConsumer == InitConsumer /\ [][NextConsumer]_vars

InitQuery == FormIdle /\ HookIdle /\ NotifIdle /\ ReqIdle /\ QueryInit /\ ExtIdle

SpecQuery == InitQuery /\ [][NextQuery]_vars

(***************************************************************************)
(* Claims about the FormBuilder (checked under SpecForm)                   *)
(***************************************************************************)
\* Some field marked required has an empty or absent entry.
RequiredEmpty(fs, fd) ==
    \E i \in 1..Len(fs) : fs[i].required /\ fd[i] \in {Null, ""}

\* C1 (as claimed): for every field type, whenever a required field has an
\* empty or absent value, a submission throws a validation error and does not
\* invoke onSubmit: no step taken with such a field starts an invocation, and
\* every submit event it processes ends in the validation error.
C1_RequiredBlocksSubmit ==
    [][RequiredEmpty(fields, formData) =>
          /\ inFlight' <= inFlight
          /\ lastEvent' # "submitted"]_vars

\* C2: within one FormBuilder at most one onSubmit invocation is unsettled at
\* any time: while one is pending no submit event starts another.
C2_SingleFlight == inFlight <= 1

C2_Witness == inFlight = 1 /\ lastEvent = "submitted" /\ handlerArg # NoCall

ClaimedTransitions ==
    { <<"idle", "pending">>, <<"pending", "success">>, <<"pending", "error">>,
      <<"success", "idle">>, <<"error", "idle">>,
      <<"success", "pending">>, <<"error", "pending">> }

StatusStep == <<mutation.status, mutation'.status>>

\* C4 (as claimed): the status of the hook changes only along idle -> pending,
\* pending -> success, pending -> error, success or error -> idle (reset) and
\* success or error -> pending (fetch).
C4_OnlyClaimedTransitions ==
    [][mutation'.status # mutation.status => StatusStep \in ClaimedTransitions]_vars

\* C4 (amended): the status changes only along the claimed transitions and
\* pending -> idle, which reset() takes while a call is unsettled; each change
\* is made by the operation the claim names, the step to success gives
\* {isLoading: false, isLoaded: true, error: null}, the step to error gives
\* {isLoading: false, isLoaded: false, error set}, and every reset() gives
\* {isLoaded: false, error: null}.
C4_TransitionsWithResetWhilePending ==
    [][/\ mutation'.status # mutation.status =>
              StatusStep \in ClaimedTransitions \cup {<<"pending", "idle">>}
       /\ (mutation'.status # mutation.status /\ mutation'.status = "pending") =>
              hookEvent' = "fetch"
       /\ (mutation'.status # mutation.status /\ mutation'.status = "idle") =>
              hookEvent' = "reset"
       /\ (mutation'.status # mutation.status /\ mutation'.status = "success") =>
              /\ hookEvent' = "resolved"
              /\ UseServiceResult(mutation').isLoading = FALSE
              /\ UseServiceResult(mutation').isLoaded = TRUE
              /\ UseServiceResult(mutation').error = Null
       /\ (mutation'.status # mutation.status /\ mutation'.status = "error") =>
              /\ hookEvent' = "rejected"
              /\ UseServiceResult(mutation').isLoading = FALSE
              /\ UseServiceResult(mutation').isLoaded = FALSE
              /\ UseServiceResult(mutation').error \in Errors
       /\ hookEvent' = "reset" =>
              /\ UseServiceResult(mutation').isLoaded = FALSE
              /\ UseServiceResult(mutation').error = Null]_vars

\* reset() was called while the only fetch made is still unsettled.
C4_Witness ==
    /\ hookEvent = "reset"
    /\ callCount = 1
    /\ Unsettled = {1}
    /\ mutation.status = "idle"

(***************************************************************************)
(* Claims about notifications (checked under SpecNotif and SpecNotifApi)   *)
(***************************************************************************)
RemoveAt(list, k) == SubSeq(list, 1, k - 1) \o SubSeq(list, k + 1, Len(list))

\* The step removes from the list exactly the one record with the id.
RemovesExactly(id) ==
    \E k \in 1..Len(notifications) :
       /\ notifications[k].id = id
       /\ notifications' = RemoveAt(notifications, k)

\* The time of the insertion is the first component of the id.
Deadline(notification) == notification.id[1] + notification.duration

ExpireStep == notifEvent'.op = "expire" /\ notifEvent' # notifEvent
CloseStep == notifEvent'.op = "close" /\ notifEvent' # notifEvent
InsertStep == Len(issued') = Len(issued) + 1

\* C5: a record of positive duration d never stays in the list past d
\* milliseconds after its insertion (its timer runs until then), and the
\* expiry of a timer removes exactly the record of its id, at that deadline,
\* leaving the other records in their order.
C5_ExpiryRemovesExactlyThatId ==
    [][/\ \A k \in 1..Len(notifications') :
             notifications'[k].duration > 0 =>
                /\ [id |-> notifications'[k].id,
                    deadline |-> Deadline(notifications'[k])] \in timers'
                /\ now' <= Deadline(notifications'[k])
       /\ ExpireStep =>
             /\ RemovesExactly(notifEvent'.id)
             /\ \E k \in 1..Len(notifications) :
                   /\ notifications[k].id = notifEvent'.id
                   /\ notifications[k].duration > 0
                   /\ now = Deadline(notifications[k])]_vars

\* A timer fired after time had passed, another record is still listed.
C5_Witness ==
    /\ notifEvent.op = "expire"
    /\ now > notifEvent.id[1]
    /\ Len(notifications) = 2
    /\ Len(issued) = 3
    /\ issued[2] = notifEvent.id

\* C6: closing a rendered notification removes exactly the record of its id
\* in that step and leaves no timer for the id; no timer ever outlives its
\* record, and a timer that fires removes the record of its own id only.
C6_CloseCancelsTimer ==
    [][/\ CloseStep =>
             /\ RemovesExactly(notifEvent'.id)
             /\ ~\E t \in timers' : t.id = notifEvent'.id
       /\ \A t \in timers' : t.id \in Ids(notifications')
       /\ ExpireStep => RemovesExactly(notifEvent'.id)]_vars

\* A record was closed while its timer was pending; a later record still
\* waits for its own timer.
C6_Witness ==
    /\ notifEvent.op = "close"
    /\ notifEvent.timer
    /\ notifEvent.id = issued[1]
    /\ Len(notifications) = 1
    /\ timers # {}
    /\ now > notifEvent.id[1]

\* C7 (as claimed): every call of an insertion function returns a dismiss
\* function to the consumer.
C7_InsertReturnsDismiss ==
    notifEvent.op \in InsertionFunctions => returned # Undefined

\* C7 (amended): a call of an insertion function appends exactly one record,
\* of the type of the function (for showNotification: of one of the four
\* types), and returns undefined; records leave the list only by the expiry
\* of a timer or by the close button.
C7_InsertAppendsAndReturnsNothing ==
    [][/\ InsertStep =>
             /\ Len(notifications') = Len(notifications) + 1
             /\ SubSeq(notifications', 1, Len(notifications)) = notifications
             /\ notifications'[Len(notifications')].id = notifEvent'.id
             /\ notifEvent'.op \in NotificationTypes =>
                   notifications'[Len(notifications')].type = notifEvent'.op
             /\ notifications'[Len(notifications')].type \in NotificationTypes
             /\ returned' = Undefined
       /\ Len(notifications') < Len(notifications) =>
             notifEvent'.op \in {"expire", "close"}]_vars

C7_Witness ==
    /\ notifEvent.op = "success"
    /\ notifications # <<>>
    /\ notifications[Len(notifications)].type = "success"
    /\ notifications[Len(notifications)].duration = 1
    /\ returned = Undefined

\* The ids of the list are in the order in which they were issued.
InIssueOrder(list, order) ==
    \A a, b \in 1..Len(list) :
       a < b => \E i, j \in 1..Len(order) :
                   i < j /\ order[i] = list[a].id /\ order[j] = list[b].id

\* C8: the ids of the listed records are pairwise distinct and in insertion
\* order, and an insertion appends exactly one record whose id was never
\* issued before.
C8_DistinctIdsInInsertionOrder ==
    [][/\ Cardinality(Ids(notifications')) = Len(notifications')
       /\ InIssueOrder(notifications', issued')
       /\ InsertStep =>
             /\ notifications' =
                   Append(notifications, notifications'[Len(notifications')])
             /\ ~\E i \in 1..Len(issued) :
                   issued[i] = notifications'[Len(notifications')].id]_vars

\* Two records made in the same millisecond are listed, after the removal
\* of an earlier one.
C8_Witness ==
    /\ Len(issued) = 3
    /\ Len(notifications) = 2
    /\ notifications[1].id[1] = notifications[2].id[1]
    /\ notifications[1].id = issued[2]

\* C9: a record of duration zero or negative has no timer, and leaves the
\* list only in the step that closes it.
C9_NonPositiveDurationPersists ==
    [][/\ \A k \in 1..Len(notifications') :
             notifications'[k].duration <= 0 =>
                ~\E t \in timers' : t.id = notifications'[k].id
       /\ \A k \in 1..Len(notifications) :
             (/\ notifications[k].duration <= 0
              /\ notifications[k].id \notin Ids(notifications')) =>
                (CloseStep /\ notifEvent'.id = notifications[k].id)]_vars

\* A record of duration zero is still listed after time has passed and the
\* timer of a later record has fired.
C9_Witness ==
    /\ Len(notifications) = 1
    /\ notifications[1].duration = 0
    /\ now > notifications[1].id[1]
    /\ notifEvent.op = "expire"
    /\ Len(issued) = 2

(***************************************************************************)
(* Claims about the RequestBuilder (checked under SpecRequest)             *)
(***************************************************************************)
\* sub occurs in s.
Contains(s, sub) ==
    \E i \in 1..(Len(s) - Len(sub) + 1) : SubSeq(s, i, i + Len(sub) - 1) = sub

\* C10: for a response with a non-success status execRequest rejects, with
\* an Error whose message contains the numeric status and the text body of
\* the response, or the status phrase when the body is empty; it returns no
\* payload.
C10_ErrorCarriesStatusAndBody ==
    (reqPhase = "settled" /\ response # NoResponse /\ ~Ok(response)) =>
        /\ outcome.kind = "rejected"
        /\ Contains(outcome.message, ToString(response.status))
        /\ Contains(outcome.message,
                    IF response.body # "" THEN response.body
                                          ELSE response.statusText)

C10_Witness ==
    /\ reqPhase = "settled"
    /\ response = [status |-> 404, statusText |-> "Not Found", body |-> "Not found"]
    /\ outcome = [kind |-> "rejected", message |-> "HTTP 404: Not found"]

\* The values the mock endpoint returns, sent as their JSON text.
DeckD1 == Obj(<< <<"id", Str("d1")>>, <<"name", Str("Test")>>, <<"count", Num(0)>> >>)
EndpointValues == {DeckD1, Arr(<<>>)}

\* C11: a settled call whose response has success status 204 resolved with
\* undefined, whatever the body; one whose response has another success
\* status and carries the JSON text of a value the endpoint returned resolved
\* with a payload equal to that value.
C11_SuccessPayload ==
    (reqPhase = "settled" /\ response # NoResponse /\ Ok(response)) =>
        /\ response.status = 204 =>
              outcome = [kind |-> "resolved", payload |-> Undefined]
        /\ \A v \in EndpointValues :
              (response.status # 204 /\ response.body = JSONStringify(v)) =>
                 outcome = [kind |-> "resolved", payload |-> v]

\* The round trip of the specification: GET, status 200, the deck d1.
C11_Witness ==
    /\ reqPhase = "settled"
    /\ call # NoCall
    /\ call.method = "GET"
    /\ response.status = 200
    /\ response.body = DeckJson
    /\ JSONStringify(DeckD1) = DeckJson
    /\ outcome = [kind |-> "resolved", payload |-> DeckD1]

\* The text is the serialization of the payload in the content type: its
\* JSON text under application/json; under another content type the JSON
\* text of an object is not its serialization.
SerializedAs(text, payload, contentType) ==
    /\ text # NoBody
    /\ IF contentType = "application/json"
       THEN text = JSONStringify(payload)
       ELSE payload.t = "object" => text # JSONStringify(payload)

\* C12 (as claimed): for every method other than GET and every payload given
\* to setBody, the issued call carries the serialization of the payload in
\* the content type declared for the request; for GET the call carries no
\* body.
C12_BodyRule ==
    reqPhase # "built" =>
        /\ (config.method # "GET" /\ config.body # Undefined) =>
              SerializedAs(call.body, config.body, call.contentType)
        /\ config.method = "GET" => call.body = NoBody

\* C13: when fetch rejects, no response is obtained and execRequest rejects:
\* with the message of the failure when the failure is an Error, and with
\* 'An unexpected error occurred' when it is any other value; it never
\* resolves with a payload.
C13_TransportFailure ==
    failure # NoFailure =>
        /\ reqPhase = "settled"
        /\ response = NoResponse
        /\ outcome.kind = "rejected"
        /\ failure.isError =>
              outcome = [kind |-> "rejected", message |-> failure.message]
        /\ ~failure.isError =>
              outcome = [kind |-> "rejected",
                         message |-> "An unexpected error occurred"]

\* fetch rejected with an Error after a POST with a body was issued.
C13_Witness ==
    /\ failure = [isError |-> TRUE, message |-> "Failed to fetch"]
    /\ call # NoCall
    /\ call.method = "POST"
    /\ call.body = JSONStringify(CreateDeckDto)
    /\ outcome = [kind |-> "rejected", message |-> "Failed to fetch"]

(***************************************************************************)
(* Claims about deckService (checked under SpecDeck)                       *)
(***************************************************************************)
\* The path, method and body the claim gives for a function and its params.
ClaimedPath(op, params) ==
    IF op \in {"getAll", "create"} THEN "/v1/decks"
    ELSE "/v1/decks/" \o Prop(params, "id").s

ClaimedMethod(op) ==
    CASE op \in {"getAll", "getById"} -> "GET"
      [] op = "create" -> "POST"
      [] op = "update" -> "PUT"
      [] OTHER -> "DELETE"

ClaimedBody(op, params) ==
    CASE op = "create" -> JSONStringify(params)
      [] op = "update" ->
             JSONStringify(Obj(SelectSeq(params.members, LAMBDA m : m[1] # "id")))
      [] OTHER -> NoBody

\* C14: the number of fetch calls equals the number of invocations of the
\* service's functions at every moment (one call per invocation, none added
\* when it settles); the call of the last invocation has the path, method and
\* body of its function, an update body never names id; and a settled
\* invocation has the outcome execRequest computed for that call.
C14_OneCallPerInvocation ==
    /\ fetchCount = invoked.n
    /\ invoked.op # "none" =>
          /\ call.url = config.baseUrl \o ClaimedPath(invoked.op, invoked.params)
          /\ call.method = ClaimedMethod(invoked.op)
          /\ call.body = ClaimedBody(invoked.op, invoked.params)
          /\ invoked.op = "update" => ~Contains(call.body, "\"id\"")
          /\ reqPhase = "settled" =>
                outcome = (IF failure # NoFailure THEN Catch(failure)
                                                  ELSE HandleResponse(response))

\* update({name, id}) was the second invocation; its call carried the name
\* alone and was answered with the deck.
C14_Witness ==
    /\ invoked.op = "update"
    /\ invoked.n = 2
    /\ invoked.params.members[1][1] = "name"
    /\ call.url = "http://localhost:3001/v1/decks/d2"
    /\ call.body = "{\"name\":\"New\"}"
    /\ reqPhase = "settled"
    /\ outcome.kind = "resolved"

(***************************************************************************)
(* Claims about errors, coercion and the disabled state of the form        *)
(***************************************************************************)
\* C15 (as claimed): every validation error the FormBuilder raises is the
\* non-null error field of the projection of the hook mounted with the form.
C15_ValidationErrorInHookResult ==
    thrown # NoError => UseServiceResult(mutation).error # Null

\* C16 (as claimed): isLoaded is true exactly when the hook has seen its
\* service complete successfully since it was created or last reset.
C16_LoadedAtLeastOnce == UseServiceResult(mutation).isLoaded = loadedOnce

\* The step is a submit event that passed validation and invoked onSubmit.
SubmitStep == lastEvent' = "submitted" /\ inFlight' = inFlight + 1

\* C18 (as claimed): the value a checkbox field has in the map given to
\* onSubmit is true when its control is checked at the submission, and is
\* absent (undefined) when it is not.
C18_CheckboxTrueOrAbsent ==
    [][SubmitStep =>
          \A i \in 1..Len(fields) :
             fields[i].type = "checkbox" =>
                handlerArg'[i] = (IF controls[i] = "checked" THEN Bool(TRUE)
                                                             ELSE Undefined)]_vars

\* C18 (amended): the value of a checkbox field is always a boolean: true
\* when its control is checked and not disabled by its configuration at the
\* submission, false otherwise.
C18_CheckboxTrueOrFalse ==
    [][SubmitStep =>
          \A i \in 1..Len(fields) :
             fields[i].type = "checkbox" =>
                handlerArg'[i] =
                   Bool(controls[i] = "checked" /\ ~fields[i].disabled)]_vars

\* Submitted: a checked checkbox, and an unchecked one the user had checked
\* before.
C18_Witness ==
    /\ lastEvent = "submitted"
    /\ Len(fields) = 2
    /\ fields[1].type = "checkbox" /\ fields[2].type = "checkbox"
    /\ ~fields[1].disabled /\ ~fields[2].disabled
    /\ fields[2].defaultChecked
    /\ controls = <<"checked", "unchecked">>
    /\ handlerArg = <<Bool(TRUE), Bool(FALSE)>>

\* The text is a numeric literal: of the texts the model types, a string of
\* digits; and the number it denotes.
IsNumericLiteral(text) ==
    text # "" /\ \A k \in 1..Len(text) : SubSeq(text, k, k) \in Digits

DigitValue(d) == CHOOSE n \in 0..9 : ToString(n) = d

RECURSIVE Denotes(_)
Denotes(text) ==
    IF text = "" THEN 0
    ELSE 10 * Denotes(SubSeq(text, 1, Len(text) - 1))
         + DigitValue(SubSeq(text, Len(text), Len(text)))

\* C19: the value a number field has in the map given to onSubmit is the
\* number its input denotes when the input is a numeric literal and undefined
\* for every other input, the empty and the whitespace-only one included; a
\* form of number fields alone never fails validation.
C19_NumberOrUndefined ==
    [][/\ SubmitStep =>
             \A i \in 1..Len(fields) :
                fields[i].type = "number" =>
                   handlerArg'[i] =
                      (IF IsNumericLiteral(controls[i]) /\ ~fields[i].disabled
                       THEN Num(Denotes(controls[i])) ELSE Undefined)
       /\ (\A i \in 1..Len(fields) : fields[i].type = "number") =>
             lastEvent' # "invalid"]_vars

\* Submitted: whitespace in a required number field, 0 in another.
C19_Witness ==
    /\ lastEvent = "submitted"
    /\ Len(fields) = 2
    /\ fields[1].type = "number" /\ fields[2].type = "number"
    /\ fields[1].required
    /\ controls = <<" ", "0">>
    /\ handlerArg = <<Undefined, Num(0)>>

\* What the form renders: the disabled attribute of the submit button and of
\* the control of field i.
SubmitButtonDisabled == isDisabled(FALSE, isPending)
ControlDisabled(i) == FieldDisabled(fields[i], isPending)

RenderedAsClaimed ==
    /\ inFlight > 0 =>
          /\ SubmitButtonDisabled
          /\ \A i \in 1..Len(fields) : ControlDisabled(i)
    /\ inFlight = 0 =>
          /\ ~SubmitButtonDisabled
          /\ \A i \in 1..Len(fields) : ControlDisabled(i) <=> fields[i].disabled

\* C20: while a submission is pending the submit button and every field are
\* disabled, and no control is changed by the user and no submit event is
\* processed; when none is pending the button is enabled and a field is
\* disabled exactly when its configuration says so.
C20_DisabledWhilePending ==
    [][/\ RenderedAsClaimed
       /\ RenderedAsClaimed'
       /\ inFlight > 0 => lastEvent' \in {"resolved", "rejected"}]_vars

\* A submission is pending on a form whose first field is not disabled by
\* its configuration and holds what the user typed.
C20_Witness ==
    /\ inFlight = 1
    /\ ~fields[1].disabled
    /\ fields[1].type = "text"
    /\ controls[1] = "a"
    /\ ControlDisabled(1)
    /\ SubmitButtonDisabled

(***************************************************************************)
(* Claims about useServiceQuery (checked under SpecQuery)                  *)
(***************************************************************************)
\* The value useQuery is given for the option.
OptionGiven(q, name) ==
    CASE name = "enabled" -> q.enabled
      [] name = "retry" -> q.retry
      [] name = "staleTime" -> q.staleTime
      [] name = "gcTime" -> q.gcTime
      [] name = "refetchOnWindowFocus" -> q.refetchOnWindowFocus
      [] OTHER -> q.refetchInterval

\* The options object is applied: useQuery is given the value of each
\* option the object holds.
Applied(options, q) ==
    options # Undefined =>
       \A k \in 1..Len(options.members) :
          OptionGiven(q, options.members[k][1]) = options.members[k][2]

\* C17 (as claimed): for a call (queryKey, service, params[, options]) the
\* cache key is queryKey with params appended and the service is called with
\* params; for a call (queryKey, service[, options]) the cache key is
\* queryKey, the service is called with no argument and the options object is
\* applied; useServiceQuery does not throw.
C17_QueryOverloads ==
    query # NoQuery =>
        /\ ~query.threw
        /\ queryArgs.shape = "params" =>
              /\ query.queryKey = Append(queryArgs.queryKey, queryArgs.third)
              /\ serviceCall # NoServiceCall =>
                    serviceCall.argument = queryArgs.third
              /\ Applied(queryArgs.fourth, query)
        /\ queryArgs.shape = "options" =>
              /\ query.queryKey = queryArgs.queryKey
              /\ serviceCall # NoServiceCall =>
                    serviceCall.argument = NoArgument
              /\ Applied(queryArgs.third, query)

(***************************************************************************)
(* Claims about the handler invocation of the FormBuilder                  *)
(***************************************************************************)
\* The value the FormBuilder documentation gives a field in the value map:
\* a boolean for a checkbox, a number or undefined for a number field, the
\* text of any other control, undefined when the control contributes nothing.
AssembledValue(field, control) ==
    CASE field.type = "checkbox" -> Bool(control = "checked" /\ ~field.disabled)
      [] field.type = "number" ->
             (IF IsNumericLiteral(control) /\ ~field.disabled
              THEN Num(Denotes(control)) ELSE Undefined)
      [] OTHER ->
             (IF control \notin {"", "unselected"} /\ ~field.disabled
              THEN Str(control) ELSE Undefined)

InsideProvider == "NotificationProvider" \in {ancestors[k] : k \in 1..Len(ancestors)}

\* C22: a consumer rendered outside every NotificationProvider fails in
\* useNotification with an error that names the missing provider and gets no
\* context at all; a consumer rendered inside one never fails and gets the
\* five insertion functions, and every call of one of them inserts a record.
C22_FailsFastOutsideProvider ==
    /\ (consumer.rendered /\ ~InsideProvider) =>
          /\ consumer.threw
          /\ Contains(consumer.message, "NotificationProvider")
          /\ notifications = <<>>
    /\ (consumer.rendered /\ InsideProvider) =>
          /\ ~consumer.threw
          /\ consumer.value.functions =
                {"showNotification", "success", "error", "info", "warning"}
          /\ Len(notifications) = Len(issued)

\* A consumer below a QueryProvider and a div, with no NotificationProvider
\* above it, was rendered.
C22_Witness ==
    /\ ancestors = <<"QueryProvider", "div">>
    /\ consumer.rendered
    /\ consumer.threw

(***************************************************************************)
(* Claims about the Field renderer (checked under SpecField)               *)
(***************************************************************************)
\* The widget of each variant: the component, the tag of its control and the
\* type attribute of an input.
ClaimedWidget(type) ==
    CASE type = "text" -> <<"TextField", "input", "text">>
      [] type = "email" -> <<"EmailField", "input", "email">>
      [] type = "password" -> <<"PasswordField", "input", "password">>
      [] type = "number" -> <<"NumberField", "input", "number">>
      [] type = "textarea" -> <<"TextareaField", "textarea", Null>>
      [] type = "select" -> <<"SelectField", "select", Null>>
      [] type = "checkbox" -> <<"CheckboxField", "input", "checkbox">>
      [] type = "radio" -> <<"RadioField", "input", "radio">>

EightTypes == {"text", "email", "password", "number", "textarea", "select",
               "checkbox", "radio"}

\* C23: for a configuration of one of the eight types Field returns the
\* component of that variant, whose controls are of the variant's kind and
\* all carry the field's name: one control, but one radio input for every
\* option of a radio field; for any other type Field returns null.
C23_FieldDispatch ==
    element.rendered =>
        LET cfg == fieldProps.config
        IN  IF cfg.type \in EightTypes
            THEN /\ element.component = ClaimedWidget(cfg.type)[1]
                 /\ Len(element.controls) =
                       (IF cfg.type = "radio" THEN Len(cfg.options) ELSE 1)
                 /\ \A k \in 1..Len(element.controls) :
                       /\ element.controls[k].tag = ClaimedWidget(cfg.type)[2]
                       /\ element.controls[k].type = ClaimedWidget(cfg.type)[3]
                       /\ element.controls[k].name = cfg.name
            ELSE /\ element.component = Null
                 /\ element.controls = <<>>

\* Field was rendered for a configuration of a type it does not know.
C23_Witness ==
    /\ element.rendered
    /\ fieldProps.config.type = "date"
    /\ fieldProps.config.name = "f2"
    /\ element = RendersNothing

(***************************************************************************)
(* Claims about the backend (checked under SpecApi)                        *)
(***************************************************************************)
\* The step is a POST /v1/decks request.
CreateStep == apiReply'.status = 201

\* The body of the create request of the step has no name, or an empty one.
RefusedStep ==
    /\ CreateStep
    /\ apiReply'.body = Obj(<< <<"error", Str("name is required")>> >>)

\* C24: every row of the deck table has a name that is a non-empty string,
\* after any sequence of create requests; a create request either adds one
\* row, with a non-empty name, or - when its body has no name or an empty
\* name - leaves the table as it is.
C24_PersistedNamesNonEmpty ==
    [][/\ \A k \in 1..Len(decks') :
             decks'[k].name.t = "string" /\ decks'[k].name.s # ""
       /\ CreateStep =>
             \/ /\ Len(decks') = Len(decks) + 1
                /\ SubSeq(decks', 1, Len(decks)) = decks
                /\ ~RefusedStep
             \/ /\ decks' = decks
                /\ RefusedStep
       /\ ~CreateStep => decks' = decks]_vars

\* A create request without a name was refused after a deck was persisted:
\* the table still holds that deck alone.
C24_Witness ==
    /\ Len(decks) = 1
    /\ decks[1].name = Str("Test")
    /\ apiReply.status = 201
    /\ apiReply.body = Obj(<< <<"error", Str("name is required")>> >>)

(***************************************************************************)
(* Claims about the callbacks of useService (checked under SpecHook)       *)
(***************************************************************************)
\* The service calls that settle in the step.
SettledNow == Unsettled \ Unsettled'

\* C25: the step in which a service call settles calls exactly one callback
\* once, when that callback is configured - onSuccess with the data when the
\* call resolved, onError with the error when it was rejected for the last
\* time - and calls nothing when it is not configured, while the status of
\* the hook that follows the call changes all the same; no other step
\* (fetch, a retry, reset) calls a callback.
C25_OneCallbackPerSettledFetch ==
    [][IF SettledNow = {}
       THEN invocations' = invocations
       ELSE /\ SettledNow = {lastSettled'.id}
            /\ lastSettled'.kind = "resolved" =>
                  /\ invocations' = invocations \o
                        (IF "onSuccess" \in callbacks
                         THEN << [callback |-> "onSuccess", id |-> lastSettled'.id,
                                  argument |-> lastSettled'.value] >>
                         ELSE <<>>)
                  /\ lastSettled'.id = current =>
                        /\ mutation'.status = "success"
                        /\ mutation'.data = lastSettled'.value
            /\ lastSettled'.kind = "rejected" =>
                  /\ invocations' = invocations \o
                        (IF "onError" \in callbacks
                         THEN << [callback |-> "onError", id |-> lastSettled'.id,
                                  argument |-> lastSettled'.value] >>
                         ELSE <<>>)
                  /\ lastSettled'.id = current =>
                        /\ mutation'.status = "error"
                        /\ mutation'.error = lastSettled'.value]_vars

\* Both callbacks are configured; the first fetch resolved and the second
\* was rejected: onSuccess was called for the first, onError for the second.
C25_Witness ==
    /\ callbacks = {"onSuccess", "onError"}
    /\ Unsettled = {}
    /\ invocations = << [callback |-> "onSuccess", id |-> 1, argument |-> "deck"],
                        [callback |-> "onError", id |-> 2, argument |-> "HTTP 500"] >>
    /\ mutation.status = "error"

(***************************************************************************)
(* Claims about the create mutation (checked under SpecCreate)             *)
(***************************************************************************)
\* The effects that show a success notification.
SuccessShown(log) == SelectSeq(log, LAMBDA e : e.effect = "success")

\* The backend refused the create request of the call the mutation follows.
Refused ==
    /\ apiReply.body = Obj(<< <<"error", Str("name is required")>> >>)
    /\ reqPhase = "settled"
    /\ response.status = apiReply.status

\* C26 (as claimed): once the mutation has settled on a create request that
\* the backend refused for its missing or empty name, it is in the error
\* state, and the step in which it settles calls no onSuccess and shows no
\* success notification.
C26_RefusalSeenAsFailure ==
    [][(Refused /\ current \in Unsettled /\ current \notin Unsettled') =>
          /\ mutation'.status = "error"
          /\ Len(SelectSeq(invocations', LAMBDA c : c.callback = "onSuccess")) =
                Len(SelectSeq(invocations, LAMBDA c : c.callback = "onSuccess"))
          /\ Len(SuccessShown(effects')) = Len(SuccessShown(effects))]_vars

(***************************************************************************)
(* Claims about the independence of the notification timers                *)
(***************************************************************************)
\* C27: the timer of a notification is started once, in the step that
\* inserts the notification, and stays as it is - with the deadline of that
\* insertion - through every step that leaves the notification in the list,
\* whatever the step inserts, expires or dismisses; a notification leaves
\* the list only by its own expiry or dismissal, and one of positive
\* duration d that was not dismissed leaves it d milliseconds after its
\* insertion.
C27_TimersIndependent ==
    [][/\ \A t \in timers : t.id \in Ids(notifications') => t \in timers'
       /\ \A t \in timers' \ timers :
             /\ InsertStep
             /\ t.id = issued'[Len(issued')]
             /\ t.deadline = now + notifications'[Len(notifications')].duration
             /\ notifications'[Len(notifications')].id = t.id
       /\ \A id \in Ids(notifications) \ Ids(notifications') :
             /\ notifEvent'.id = id
             /\ ExpireStep \/ CloseStep
             /\ ExpireStep =>
                   \E k \in 1..Len(notifications) :
                      /\ notifications[k].id = id
                      /\ now = id[1] + notifications[k].duration]_vars

\* The second of three notifications with running timers was dismissed, and
\* then, after time had passed, the first expired at its own deadline while
\* the third, inserted later, still counts down.
C27_Witness ==
    /\ notifEvent.op = "expire"
    /\ Len(issued) = 3
    /\ notifEvent.id = issued[1]
    /\ Len(notifications) = 1
    /\ notifications[1].id = issued[3]
    /\ issued[3][1] > issued[1][1]
    /\ \E t \in timers : t.id = issued[3] /\ t.deadline > now

(***************************************************************************)
(* Claims about the CreateDeckForm flow (checked under SpecCreateForm)      *)
(***************************************************************************)
\* The step in which the create of the form settles.
CreateSettles == current \in Unsettled /\ current \notin Unsettled'

\* What the step added to the effects of the callbacks, and the
\* notifications it inserted.
NewEffects == SubSeq(effects', Len(effects) + 1, Len(effects'))
Inserted == SubSeq(notifications', Len(notifications) + 1, Len(notifications'))

C30_BuilderIsolation ==
    [][/\ lastOp'.kind = "execRequest" =>
             /\ heap' = heap /\ builders' = builders
             /\ lastCalls'[lastOp'.builder] = execRequest(heap, builders[lastOp'.builder])
             /\ lastOp = lastOp' => lastCalls'[lastOp'.builder] = lastCalls[lastOp.builder]
       /\ \A c \in 1..Len(builders) :
             c # lastOp'.builder =>
                /\ execRequest(heap', builders'[c]) = execRequest(heap, builders[c])
                /\ lastCalls'[c] = lastCalls[c]]_vars

\* Two builders, the second configured differently from the first, and the
\* first executed twice in a row.
C30_Witness ==
    /\ Len(builders) = 2
    /\ lastOp = [kind |-> "execRequest", builder |-> 1]
    /\ builderOps = 5
    /\ lastCalls[1] = execRequest(heap, builders[1])
    /\ execRequest(heap, builders[2]).body # NoBody
    /\ execRequest(heap, builders[1]).body = NoBody
    /\ builders[1].config # builders[2].config

====
